---- MODULE Spec2Model ----
(***************************************************************************)
(* StorageManager (src/src/storageManager.ts): a namespaced, TTL-based     *)
(* object store kept as one JSON file per record plus one index.json per   *)
(* namespace directory.                                                    *)
(*                                                                         *)
(* Values are JSON syntax trees [t, v]; a file holds the token sequence    *)
(* JSON.stringify writes and every read parses it again.  File names are   *)
(* strings without the ".json" suffix, so the index file of a namespace    *)
(* is the file "index" of its directory.  Time is the millisecond clock    *)
(* Date.now(), counted from the epoch.                                     *)
(***************************************************************************)
EXTENDS Integers, Sequences, FiniteSets, TLC

(***************************************************************************)
(* Bounds of the model.                                                    *)
(***************************************************************************)
MaxClock == 3
MaxStores == 2

(***************************************************************************)
(* JSON values.                                                            *)
(***************************************************************************)
JNum(n) == [t |-> "num", v |-> n]
JStr(s) == [t |-> "str", v |-> s]
JArr(elems) == [t |-> "arr", v |-> elems]
JObj(members) == [t |-> "obj", v |-> members]
Null == [t |-> "null", v |-> 0]
Undefined == [t |-> "undef", v |-> 0]
\* true and false: v is 1 and 0
JBool(b) == [t |-> "bool", v |-> IF b THEN 1 ELSE 0]
\* the number n / 2 for an odd n, such as the 1.5 MetricsAggregator reports
JHalf(n) == [t |-> "half", v |-> n]

\* obj[k] of a JavaScript object: undefined when obj is no object or has no k
Prop(obj, k) ==
  IF obj.t # "obj" THEN Undefined
  ELSE IF \E i \in 1..Len(obj.v) : obj.v[i][1] = k
       THEN obj.v[CHOOSE i \in 1..Len(obj.v) : obj.v[i][1] = k][2]
       ELSE Undefined

\* obj[k] = val on the member list: an existing key keeps its place
SetProp(members, k, val) ==
  IF \E i \in 1..Len(members) : members[i][1] = k
  THEN [i \in 1..Len(members) |->
          IF members[i][1] = k THEN <<k, val>> ELSE members[i]]
  ELSE Append(members, <<k, val>>)

RECURSIVE Spread(_, _)
\* {...a, ...b} on member lists
Spread(a, b) ==
  IF b = <<>> THEN a ELSE Spread(SetProp(a, b[1][1], b[1][2]), Tail(b))

Truthy(j) ==
  CASE j.t = "undef" -> FALSE
    [] j.t = "null" -> FALSE
    [] j.t = "num" -> j.v # 0
    [] j.t = "bool" -> j.v # 0
    [] j.t = "str" -> j.v # ""
    [] OTHER -> TRUE

(***************************************************************************)
(* JSON.stringify: the token sequence of a value.  A token is <<kind,      *)
(* text>>: "p" punctuation, "s" string, "n" number, "l" literal.           *)
(***************************************************************************)
\* the numbers the model writes into files
NumRange == -1..399
\* String(n)
NumText == [n \in NumRange |-> ToString(n)]
\* and the number each of those texts reads as
TextNum == [s \in {NumText[n] : n \in NumRange} |-> CHOOSE n \in NumRange : NumText[n] = s]
\* the halves the model writes, 0.5 and 1.5, and their texts
Halves == {1, 3}
HalfText == [n \in Halves |-> ToString(n \div 2) \o ".5"]
TextHalf == [s \in {HalfText[n] : n \in Halves} |-> CHOOSE n \in Halves : HalfText[n] = s]

Punct(c) == <<"p", c>>

RECURSIVE Stringify(_), StringifyElems(_, _), StringifyMembers(_, _)
Stringify(j) ==
  CASE j.t = "num" -> << <<"n", NumText[j.v]>> >>
    [] j.t = "half" -> << <<"n", HalfText[j.v]>> >>
    [] j.t = "bool" -> << <<"l", IF j.v # 0 THEN "true" ELSE "false">> >>
    [] j.t = "str" -> << <<"s", j.v>> >>
    [] j.t = "null" -> << <<"l", "null">> >>
    [] j.t = "arr" -> <<Punct("[")>> \o StringifyElems(j.v, 1) \o <<Punct("]")>>
    [] j.t = "obj" -> <<Punct("{")>> \o StringifyMembers(j.v, TRUE) \o <<Punct("}")>>

\* an undefined array element is written as null
StringifyElems(elems, i) ==
  IF i > Len(elems) THEN <<>>
  ELSE (IF i > 1 THEN <<Punct(",")>> ELSE <<>>)
       \o (IF elems[i].t = "undef" THEN Stringify(Null) ELSE Stringify(elems[i]))
       \o StringifyElems(elems, i + 1)

\* an undefined member is left out
StringifyMembers(members, first) ==
  IF members = <<>> THEN <<>>
  ELSE IF members[1][2].t = "undef" THEN StringifyMembers(Tail(members), first)
  ELSE (IF first THEN <<>> ELSE <<Punct(",")>>)
       \o << <<"s", members[1][1]>>, Punct(":") >>
       \o Stringify(members[1][2])
       \o StringifyMembers(Tail(members), FALSE)

RECURSIVE TextLength(_)
\* the length of the compact text of a token sequence
TextLength(toks) ==
  IF toks = <<>> THEN 0
  ELSE (IF toks[1][1] = "s" THEN Len(toks[1][2]) + 2 ELSE Len(toks[1][2]))
       + TextLength(Tail(toks))

(***************************************************************************)
(* JSON.parse: recursive descent over the tokens; [ok, v, n] is the value  *)
(* read and the position after it, ok = FALSE a SyntaxError.               *)
(***************************************************************************)
Fail == [ok |-> FALSE, v |-> Undefined, n |-> 0]
Read(val, next) == [ok |-> TRUE, v |-> val, n |-> next]

IsPunct(toks, i, c) == i <= Len(toks) /\ toks[i] = Punct(c)

RECURSIVE ParseValue(_, _), ParseElems(_, _, _), ParseMembers(_, _, _)
ParseValue(toks, i) ==
  IF i > Len(toks) THEN Fail
  ELSE CASE toks[i][1] = "n" ->
              IF toks[i][2] \in DOMAIN TextNum
              THEN Read(JNum(TextNum[toks[i][2]]), i + 1)
              ELSE IF toks[i][2] \in DOMAIN TextHalf
              THEN Read(JHalf(TextHalf[toks[i][2]]), i + 1)
              ELSE Fail
         [] toks[i][1] = "s" -> Read(JStr(toks[i][2]), i + 1)
         [] toks[i] = <<"l", "null">> -> Read(Null, i + 1)
         [] toks[i] = <<"l", "true">> -> Read(JBool(TRUE), i + 1)
         [] toks[i] = <<"l", "false">> -> Read(JBool(FALSE), i + 1)
         [] toks[i] = Punct("[") ->
              IF IsPunct(toks, i + 1, "]") THEN Read(JArr(<<>>), i + 2)
              ELSE ParseElems(toks, i + 1, <<>>)
         [] toks[i] = Punct("{") ->
              IF IsPunct(toks, i + 1, "}") THEN Read(JObj(<<>>), i + 2)
              ELSE ParseMembers(toks, i + 1, <<>>)
         [] OTHER -> Fail

ParseElems(toks, i, acc) ==
  LET e == ParseValue(toks, i) IN
  IF ~e.ok THEN Fail
  ELSE IF IsPunct(toks, e.n, ",") THEN ParseElems(toks, e.n + 1, Append(acc, e.v))
  ELSE IF IsPunct(toks, e.n, "]") THEN Read(JArr(Append(acc, e.v)), e.n + 1)
  ELSE Fail

\* a repeated key keeps its first place and takes the last value
ParseMembers(toks, i, acc) ==
  IF ~(i + 1 <= Len(toks) /\ toks[i][1] = "s" /\ toks[i + 1] = Punct(":")) THEN Fail
  ELSE LET e == ParseValue(toks, i + 2) IN
       IF ~e.ok THEN Fail
       ELSE IF IsPunct(toks, e.n, ",")
            THEN ParseMembers(toks, e.n + 1, SetProp(acc, toks[i][2], e.v))
       ELSE IF IsPunct(toks, e.n, "}")
            THEN Read(JObj(SetProp(acc, toks[i][2], e.v)), e.n + 1)
       ELSE Fail

\* JSON.parse(content): the whole text must be one value
Parse(toks) ==
  LET r == ParseValue(toks, 1) IN
  IF r.ok /\ r.n = Len(toks) + 1 THEN r ELSE Fail

(***************************************************************************)
(* Dates: toISOString of a millisecond count, and new Date(text) back.     *)
(***************************************************************************)
ClockRange == 0..(2 * MaxClock + 2)

\* the times to live generateAggregations() gives, one day and one week, and
\* the one MetricsAggregator gives, one hour
DayMs == 86400000
WeekMs == 604800000
HourMs == 3600000
\* the instants the model writes into files: the clock readings, early on
\* and an hour later, and these plus a time to live
Instants ==
  {base + ms : base \in {0, HourMs, 2 * HourMs, DayMs, WeekMs}, ms \in ClockRange}

Pad2(n) == IF n < 10 THEN "0" \o ToString(n) ELSE ToString(n)
Pad3(n) == IF n < 10 THEN "00" \o ToString(n)
           ELSE IF n < 100 THEN "0" \o ToString(n) ELSE ToString(n)

\* new Date(ms).toISOString().split('T')[0], for ms in January 1970
IsoDate(ms) == "1970-01-" \o Pad2(ms \div DayMs + 1)

\* new Date(ms).toISOString(), for ms in January 1970
ToISOString(ms) ==
  IsoDate(ms) \o "T" \o Pad2((ms \div 3600000) % 24) \o ":" \o Pad2((ms \div 60000) % 60)
  \o ":" \o Pad2((ms \div 1000) % 60) \o "." \o Pad3(ms % 1000) \o "Z"

\* the date texts of the instants of the model
IsoText == [ms \in Instants |-> ToISOString(ms)]
\* and the instant each of those texts parses to
TextIso == [s \in {IsoText[ms] : ms \in Instants} |-> CHOOSE ms \in Instants : IsoText[ms] = s]

NaN == -1
\* new Date(j).getTime(): NaN for what is no date text
DateOf(j) ==
  IF j.t = "str" /\ j.v \in DOMAIN TextIso THEN TextIso[j.v] ELSE NaN

\* a faulty comparison under which no date is ever in the past
DateNeverBefore(j, ms) == FALSE

\* new Date(a) < new Date(b), b a clock reading: false when a is no date
DateBefore(j, ms) == DateOf(j) # NaN /\ DateOf(j) < ms

(***************************************************************************)
(* The directories: a file system maps each type to the files of its       *)
(* directory, a directory maps file names to contents.                     *)
(***************************************************************************)
Types == <<"cache", "analysis", "report", "mapping", "session">>
TypeSet == {Types[i] : i \in 1..Len(Types)}

IndexFile == "index"
EmptyDir == [f \in {} |-> <<>>]

\* a faulty write that replaces the directory by the one file written
WriteFileAlone(dir, f, content) == [x \in {f} |-> content]

FileExists(dir, f) == f \in DOMAIN dir
WriteFile(dir, f, content) ==
  [x \in DOMAIN dir \cup {f} |-> IF x = f THEN content ELSE dir[x]]
Unlink(dir, f) == [x \in DOMAIN dir \ {f} |-> dir[x]]

\* the configured maxCacheAge, in milliseconds
MaxCacheAge == 2

\* crypto.createHash('md5').update(key).digest('hex').substring(0, 8)
Md5Prefix(key) ==
  CASE key = "a" -> "0cc175b9"
    [] key = "b" -> "92eb5ffe"
    [] key = "index" -> "6a992d55"
    [] key = "dataset-d" -> "8f2399b1"
    [] key = "d-chunk-0" -> "e4573601"
    [] key = "d-chunk-1" -> "516592aa"
    [] key = "d-chunk-2" -> "9e8ecc14"
    [] key = "d-chunk-3" -> "ebf28bef"
    [] key = "d-chunk-4" -> "ce546941"
    [] key = "d-chunk-5" -> "2ad87c3c"
    [] key = "session-test-session" -> "de7c5b8f"
    [] key = "de7c5b8f-0" -> "bbeae235"
    [] key = "de7c5b8f-1" -> "3981f8e3"
    [] key = "de7c5b8f-2" -> "65532a5a"
    [] key = "de7c5b8f-3" -> "78e44252"
    [] key = "session-historical-collection" -> "788d41a5"
    [] key = "788d41a5-0" -> "0d496d2e"
    [] key = "788d41a5-1" -> "38fd6f12"
    [] key = "788d41a5-2" -> "601f33d5"
    [] key = "788d41a5-3" -> "bc5c1b84"
    [] key = "metrics/daily/1970-01-01" -> "f0fd87a2"
    [] key = "metrics/daily/1970-01-03" -> "889b9992"
    [] key = "metrics/daily/1970-01-04" -> "0cdb57f8"
    [] key = "metrics/daily/1970-01-05" -> "ba7d54ae"
    [] key = "metrics/daily/1970-01-06" -> "fa1c61cb"
    [] key = "metrics/weekly/1970-W01" -> "8ead2f6f"
    [] key = "metrics/weekly/1970-W02" -> "ff6aabd1"
    [] key = "sprint-metrics-P" -> "89c7ba21"
    [] key = "flow-metrics-P" -> "85b2b140"
    [] key = "dora-metrics-P" -> "3884ef53"
    [] key = "sprint-metrics-Q" -> "c1abd0f9"
    [] key = "flow-metrics-Q" -> "662a30f0"
    [] key = "dora-metrics-Q" -> "ceec4df7"

GenerateId(key, ms) == Md5Prefix(key) \o "-" \o ToString(ms)

\* the parsed index file: {} when it is missing or does not parse
IndexOf(parsed) == IF parsed.ok THEN parsed.v ELSE JObj(<<>>)

ReadIndex(dir) ==
  IF FileExists(dir, IndexFile) THEN IndexOf(Parse(dir[IndexFile])) ELSE JObj(<<>>)

\* index[key] = id and the write back.  Setting a property of what is no
\* object (null, a primitive) throws: nothing is written.
WriteIndex(dir, index, id, key) ==
  IF index.t = "obj"
  THEN WriteFile(dir, IndexFile, Stringify(JObj(SetProp(index.v, key, JStr(id)))))
  ELSE dir

\* updateIndex: read, set index[key] = id, write back
UpdateIndex(dir, id, key) == WriteIndex(dir, ReadIndex(dir), id, key)

\* x || null
OrNull(j) == IF Truthy(j) THEN j ELSE Null

\* index[key] || null, null when the index file did not parse
LookUp(parsed, key) == IF parsed.ok THEN OrNull(Prop(parsed.v, key)) ELSE Null

\* findIdByKey
FindIdByKey(dir, key) ==
  IF FileExists(dir, IndexFile) THEN LookUp(Parse(dir[IndexFile]), key) ELSE Null

\* the record store() builds
StoredData(type, key, data, metadata, ttl, ms) ==
  JObj(<< <<"id", JStr(GenerateId(key, ms))>>,
          <<"type", JStr(type)>>,
          <<"timestamp", JStr(ToISOString(ms))>>,
          <<"expiresAt", JStr(ToISOString(IF Truthy(ttl) THEN ms + ttl.v
                                           ELSE ms + MaxCacheAge))>>,
          <<"metadata", JObj(Spread(metadata,
               << <<"key", JStr(key)>>,
                  <<"size", JNum(TextLength(Stringify(data)))>> >>))>>,
          <<"data", data>> >>)

\* store(): the directory after the record file and the index are written
StoreDir(dir, type, key, data, metadata, ttl, ms) ==
  LET id == GenerateId(key, ms)
      written == WriteFile(dir, id, Stringify(StoredData(type, key, data, metadata, ttl, ms)))
  IN UpdateIndex(written, id, key)

\* the file retrieve() reads: the one named keyOrId when it exists, else the
\* one the index gives for the key, "" when there is none
IdOrNone(byKey) == IF byKey.t = "str" THEN byKey.v ELSE ""
ResolveFile(dir, keyOrId) ==
  IF FileExists(dir, keyOrId) THEN keyOrId ELSE IdOrNone(FindIdByKey(dir, keyOrId))

\* the expiry check of retrieve() on what was parsed from file
CheckRecord(dir, file, parsed, ms) ==
  IF ~parsed.ok \/ parsed.v = Null THEN [val |-> Null, dir |-> dir]
  ELSE IF Truthy(Prop(parsed.v, "expiresAt"))
          /\ DateBefore(Prop(parsed.v, "expiresAt"), ms)
       THEN [val |-> Null, dir |-> Unlink(dir, file)]
  ELSE [val |-> parsed.v, dir |-> dir]

ReadRecord(dir, file, ms) ==
  IF FileExists(dir, file) THEN CheckRecord(dir, file, Parse(dir[file]), ms)
  ELSE [val |-> Null, dir |-> dir]

\* retrieve(): [val, dir], the value returned and the directory left.  Any
\* exception inside is caught and gives null.
RetrieveIn(dir, keyOrId, ms) == ReadRecord(dir, ResolveFile(dir, keyOrId), ms)

\* a === b on JSON values: objects and arrays are equal only by reference
StrictEq(a, b) == a.t \in {"num", "half", "bool", "str", "null", "undef"} /\ a = b

\* the filter loop of list(): reading a property of an undefined metadata throws
FilterThrows(item, filter) == filter # <<>> /\ Prop(item, "metadata").t \notin {"obj", "arr", "str", "num"}
FilterMatches(item, filter) ==
  \A i \in 1..Len(filter) : StrictEq(Prop(Prop(item, "metadata"), filter[i][1]), filter[i][2])

\* a faulty comparator that sorts oldest first
ByTimestampAsc(a, b) == DateOf(Prop(a, "timestamp")) - DateOf(Prop(b, "timestamp"))

\* the comparator of list(): b.timestamp - a.timestamp
ByTimestampDesc(a, b) == DateOf(Prop(b, "timestamp")) - DateOf(Prop(a, "timestamp"))

\* x goes after the k first of the sorted items
InsertAt(sorted, k, x) == SubSeq(sorted, 1, k) \o <<x>> \o SubSeq(sorted, k + 1, Len(sorted))

\* the sorted items that stay before x: those the comparator does not put after it
InsertSorted(sorted, x) ==
  InsertAt(sorted, Cardinality({i \in 1..Len(sorted) : ByTimestampDesc(sorted[i], x) <= 0}), x)

RECURSIVE StableSort(_)
\* Array.prototype.sort with the comparator above: stable
StableSort(items) ==
  IF items = <<>> THEN <<>>
  ELSE InsertSorted(StableSort(SubSeq(items, 1, Len(items) - 1)), items[Len(items)])

RECURSIVE ListScan(_, _, _, _, _), ScanFile(_, _, _, _, _, _, _)
\* the loop of list() over the names readdir returned: [items, dir]
ListScan(dir, files, filter, ms, items) ==
  IF files = <<>> THEN [items |-> items, dir |-> dir]
  ELSE IF Head(files) = IndexFile THEN ListScan(dir, Tail(files), filter, ms, items)
  ELSE ScanFile(dir, Head(files), Parse(dir[Head(files)]), Tail(files), filter, ms, items)

\* the body of the loop for one file, item what was parsed from it
ScanFile(dir, file, item, rest, filter, ms, items) ==
  IF ~item.ok \/ item.v = Null THEN ListScan(dir, rest, filter, ms, items)
  ELSE IF Truthy(Prop(item.v, "expiresAt")) /\ DateBefore(Prop(item.v, "expiresAt"), ms)
       THEN ListScan(Unlink(dir, file), rest, filter, ms, items)
  ELSE IF FilterThrows(item.v, filter) \/ ~FilterMatches(item.v, filter)
       THEN ListScan(dir, rest, filter, ms, items)
  ELSE ListScan(dir, rest, filter, ms, Append(items, item.v))

SortScan(scan) == [items |-> StableSort(scan.items), dir |-> scan.dir]

\* list(): files is the order in which readdir returned the names
ListIn(dir, files, filter, ms) == SortScan(ListScan(dir, files, filter, ms, <<>>))

RECURSIVE Orders(_)
\* the orders readdir may return a set of names in: the platform decides
Orders(names) ==
  IF names = {} THEN {<<>>}
  ELSE UNION {{<<f>> \o o : o \in Orders(names \ {f})} : f \in names}

RECURSIVE SomeOrder(_)
\* one of them
SomeOrder(names) ==
  IF names = {} THEN <<>>
  ELSE LET f == CHOOSE f \in names : TRUE IN <<f>> \o SomeOrder(names \ {f})

RECURSIVE SweepItems(_, _, _, _)
\* the loop of cleanupExpired() over the listed items: [count, dir]
SweepItems(dir, items, ms, count) ==
  IF items = <<>> THEN [count |-> count, dir |-> dir]
  ELSE LET item == Head(items) IN
       IF Truthy(Prop(item, "expiresAt")) /\ DateBefore(Prop(item, "expiresAt"), ms)
       THEN SweepItems(Unlink(dir, Prop(item, "id").v), Tail(items), ms, count + 1)
       ELSE SweepItems(dir, Tail(items), ms, count)

\* the loop over what list() returned and left on disk
SweepListed(ls, swept, count) == SweepItems(ls.dir, ls.items, swept, count)

RECURSIVE CleanupFrom(_, _, _, _, _), CleanupType(_, _, _, _, _)
\* cleanupExpired(): list() reads the clock at listed, the loop at swept.
\* What it unlinks and counts is the same for every order of readdir.
CleanupFrom(fs, i, listed, swept, count) ==
  IF i > Len(Types) THEN [count |-> count, fs |-> fs]
  ELSE CleanupType(fs, i, listed, swept,
                   SweepListed(ListIn(fs[Types[i]], SomeOrder(DOMAIN fs[Types[i]]), <<>>, listed),
                               swept, count))

\* the next type, after the sweep sw of type i
CleanupType(fs, i, listed, swept, sw) ==
  CleanupFrom([fs EXCEPT ![Types[i]] = sw.dir], i + 1, listed, swept, sw.count)

CleanupIn(fs, listed, swept) == CleanupFrom(fs, 1, listed, swept, 0)

(***************************************************************************)
(* storeDataset and retrieveDataset.                                       *)
(***************************************************************************)
Min(a, b) == IF a < b THEN a ELSE b

\* Math.ceil(n / d) for n >= 0, d >= 1
CeilDiv(n, d) == (n + d - 1) \div d

\* a faulty slice that loses the last item of every chunk
SliceShort(data, i, chunkSize) == SubSeq(data, i + 1, Min(i + chunkSize, Len(data)) - 1)

\* data.slice(i, i + chunkSize), i counted from 0
Slice(data, i, chunkSize) == SubSeq(data, i + 1, Min(i + chunkSize, Len(data)))

Idle == [op |-> "idle"]

\* a call of storeDataset before its first store(): datasetId is made at once
DatasetJob(key, data, chunkSize, ms) ==
  [op |-> "storeDataset", key |-> key, data |-> data, chunkSize |-> chunkSize,
   datasetId |-> GenerateId("dataset-" \o key, ms), i |-> 0, chunks |-> <<>>, at |-> ms]

\* the next store() of a running storeDataset: a chunk while i < data.length,
\* the manifest after the loop.  [job, dir]
DatasetStep(job, dir, ms) ==
  IF job.i < Len(job.data)
  THEN LET chunkKey == job.key \o "-chunk-" \o ToString(job.i)
           metadata == << <<"datasetId", JStr(job.datasetId)>>,
                          <<"chunkIndex", JNum(job.i \div job.chunkSize)>>,
                          <<"totalChunks", JNum(CeilDiv(Len(job.data), job.chunkSize))>> >>
       IN [job |-> [job EXCEPT !.i = @ + job.chunkSize,
                               !.chunks = Append(@, JStr(GenerateId(chunkKey, ms)))],
           dir |-> StoreDir(dir, "cache", chunkKey,
                            JArr(Slice(job.data, job.i, job.chunkSize)), metadata, Undefined, ms)]
  ELSE [job |-> Idle,
        dir |-> StoreDir(dir, "cache", "dataset-" \o job.key,
                         JObj(<< <<"datasetId", JStr(job.datasetId)>>,
                                 <<"key", JStr(job.key)>>,
                                 <<"totalItems", JNum(Len(job.data))>>,
                                 <<"chunkSize", JNum(job.chunkSize)>>,
                                 <<"chunks", JArr(job.chunks)>>,
                                 <<"metadata", JObj(<<>>)>> >>),
                         <<>>, Undefined, ms)]

Threw == [t |-> "throw", v |-> 0]

RECURSIVE CollectChunks(_, _, _, _, _), AddChunk(_, _, _, _, _)
\* the loop of retrieveDataset over manifest.data.chunks: [val, dir, read]
CollectChunks(dir, chunkIds, ms, data, read) ==
  IF chunkIds = <<>> THEN [val |-> JArr(data), dir |-> dir, read |-> read]
  ELSE AddChunk(RetrieveIn(dir, Head(chunkIds).v, ms), Tail(chunkIds), ms, data, read)

\* the body of the loop, r what retrieve() gave for the chunk: a chunk that
\* is not found is passed over.  Spreading what is no array throws.
AddChunk(r, rest, ms, data, read) ==
  IF r.val = Null THEN CollectChunks(r.dir, rest, ms, data, read)
  ELSE IF Prop(r.val, "data").t # "arr" THEN [val |-> Threw, dir |-> r.dir, read |-> read]
  ELSE CollectChunks(r.dir, rest, ms, data \o Prop(r.val, "data").v, Append(read, r.val))

ChunkIdsOf(manifest) == Prop(Prop(manifest, "data"), "chunks")

\* retrieveDataset() after the manifest m was retrieved
ReadChunks(m, chunkIds, ms) ==
  IF m.val = Null THEN [val |-> Null, dir |-> m.dir, read |-> <<>>]
  ELSE IF chunkIds.t # "arr" \/ \E i \in 1..Len(chunkIds.v) : chunkIds.v[i].t # "str"
       THEN [val |-> Threw, dir |-> m.dir, read |-> <<m.val>>]
  ELSE CollectChunks(m.dir, chunkIds.v, ms, <<>>, <<m.val>>)

RetrieveDatasetFrom(m, ms) == ReadChunks(m, ChunkIdsOf(m.val), ms)

\* retrieveDataset(): [val, dir, read], read the records it was given by
\* retrieve().  Iterating what is no array throws.
RetrieveDatasetIn(dir, key, ms) ==
  RetrieveDatasetFrom(RetrieveIn(dir, "dataset-" \o key, ms), ms)

(***************************************************************************)
(* Sessions: createSession() stores a session object under the key         *)
(* sessionId; updateSession() reads it back, merges the updates and writes *)
(* the record to the file named by sessionId.                              *)
(***************************************************************************)
\* generateId(`session-${sessionType}`)
SessionId(sessionType, ms) == GenerateId("session-" \o sessionType, ms)

\* initialData: any = {}
OrEmpty(initialData) == IF initialData.t = "undef" THEN JObj(<<>>) ELSE initialData

\* the object createSession() stores
SessionObject(sessionType, initialData, ms) ==
  JObj(<< <<"sessionId", JStr(SessionId(sessionType, ms))>>,
          <<"sessionType", JStr(sessionType)>>,
          <<"state", JStr("active")>>,
          <<"steps", JArr(<<>>)>>,
          <<"data", OrEmpty(initialData)>>,
          <<"createdAt", JStr(ToISOString(ms))>> >>)

\* createSession(): the session directory after it
CreateSessionDir(dir, sessionType, initialData, ms) ==
  StoreDir(dir, "session", SessionId(sessionType, ms),
           SessionObject(sessionType, initialData, ms),
           << <<"sessionType", JStr(sessionType)>> >>, Undefined, ms)

\* {...x}: the own members of an object, none of undefined or null
SpreadOf(j) == IF j.t = "obj" THEN j.v ELSE <<>>

\* a faulty merge that drops what the record held before
MergedAfresh(session, updates, ms) ==
  SetProp(session.v, "data",
          JObj(Spread(updates, << <<"lastUpdated", JStr(ToISOString(ms))>> >>)))

\* session.data = {...session.data, ...updates, lastUpdated}: session is the
\* record retrieve() returned, so session.data is the stored session object
Merged(session, updates, ms) ==
  SetProp(session.v, "data",
          JObj(Spread(Spread(SpreadOf(Prop(session, "data")), updates),
                      << <<"lastUpdated", JStr(ToISOString(ms))>> >>)))

\* the rest of updateSession() after retrieve() gave r
WriteSession(r, sessionId, updates, ms) ==
  IF ~Truthy(r.val) THEN [threw |-> TRUE, dir |-> r.dir]
  ELSE [threw |-> FALSE,
        dir |-> WriteFile(r.dir, sessionId, Stringify(JObj(Merged(r.val, updates, ms))))]

\* updateSession(): [threw, dir], whether it threw "Session not found" and
\* the session directory it leaves
UpdateSessionIn(dir, sessionId, updates, ms) ==
  WriteSession(RetrieveIn(dir, sessionId, ms), sessionId, updates, ms)

(***************************************************************************)
(* collectHistoricalData(): a session, the collectors, the update to       *)
(* status completed, then generateAggregations(); any exception on the way *)
(* is caught and recorded as status failed.                                *)
(***************************************************************************)
\* the initial data of the session of a run
CollectionData(project, range, metricTypes, ms) ==
  JObj(<< <<"project", JStr(project)>>,
          <<"dateRange", JObj(<< <<"start", JStr(ToISOString(range.start))>>,
                                 <<"end", JStr(ToISOString(range.end))>> >>)>>,
          <<"metricTypes", JArr([i \in 1..Len(metricTypes) |-> JStr(metricTypes[i])])>>,
          <<"startTime", JStr(ToISOString(ms))>> >>)

\* results when the project has no iterations: an empty history per metric type
ResultsOf(metricTypes) == [i \in 1..Len(metricTypes) |-> <<metricTypes[i], JArr(<<>>)>>]

Completed(metricTypes, ms) ==
  << <<"results", JObj(ResultsOf(metricTypes))>>,
     <<"endTime", JStr(ToISOString(ms))>>,
     <<"status", JStr("completed")>> >>

Failed(message) == << <<"error", JStr(message)>>, <<"status", JStr("failed")>> >>

\* getWeekNumber of an instant of January 1970, the process running in UTC
GetWeekNumber(ms) ==
  LET n == ms \div DayMs
      dayNum == IF (4 + n) % 7 = 0 THEN 7 ELSE (4 + n) % 7
  IN "1970-W" \o Pad2(CeilDiv((n + 4 - dayNum) + 1, 7))

RECURSIVE DaysFrom(_, _)
\* the instants the loop of generateAggregations() visits
DaysFrom(current, end) ==
  IF current > end THEN <<>> ELSE <<current>> \o DaysFrom(current + DayMs, end)

RECURSIVE GroupByWeek(_, _)
\* the weeks of the days, each once, in the order of their first day
GroupByWeek(days, weeks) ==
  IF days = <<>> THEN weeks
  ELSE GroupByWeek(Tail(days),
         IF \E i \in 1..Len(weeks) : weeks[i] = GetWeekNumber(days[1]) THEN weeks
         ELSE Append(weeks, GetWeekNumber(days[1])))

\* the calls of store('cache', ...) generateAggregations() makes, in order,
\* for results that hold no period: the daily buckets, then the weekly rollups
DailyStores(project, days) ==
  [i \in 1..Len(days) |->
     [key |-> "metrics/daily/" \o IsoDate(days[i]),
      data |-> JObj(<< <<"date", JStr(IsoDate(days[i]))>>, <<"project", JStr(project)>>,
                       <<"metrics", JObj(<<>>)>> >>),
      ttl |-> DayMs]]
WeeklyStores(project, weeks) ==
  [i \in 1..Len(weeks) |->
     [key |-> "metrics/weekly/" \o weeks[i],
      data |-> JObj(<< <<"week", JStr(weeks[i])>>, <<"project", JStr(project)>>,
                       <<"metrics", JObj(<<>>)>> >>),
      ttl |-> WeekMs]]
GenerateAggregations(project, range) ==
  DailyStores(project, DaysFrom(range.start, range.end))
  \o WeeklyStores(project, GroupByWeek(DaysFrom(range.start, range.end), <<>>))

(***************************************************************************)
(* The inputs of the model.                                                *)
(***************************************************************************)
InputTypes == {"cache", "analysis"}
Keys == {"a", "b", "index"}
Payload1 == JObj(<< <<"foo", JStr("bar")>>, <<"count", JNum(42)>> >>)
Payload2 == JArr(<<JNum(1), JStr("x")>>)
ProjectA == << <<"project", JStr("A")>>, <<"tags", JArr(<<JStr("x")>>)>> >>
\* the calls of store(type, key, ...) the model makes
Requests ==
  {[data |-> Payload1, metadata |-> <<>>, ttl |-> Undefined],
   [data |-> Payload2, metadata |-> ProjectA, ttl |-> JNum(1)],
   [data |-> Payload1, metadata |-> ProjectA, ttl |-> JNum(0)]}
Filters == {<<>>, << <<"project", JStr("A")>> >>, << <<"key", JStr("a")>> >>,
            << <<"tags", JArr(<<JStr("x")>>)>> >>}

MaxItems == 3
MaxChunkSize == 2
MaxDatasets == 2
DatasetKeys == {"d"}
\* the item sequences stored: 1..n, and one of other items
ItemSeqs == {[i \in 1..n |-> JNum(i)] : n \in 0..MaxItems} \cup {<<JNum(11), JNum(12), JNum(13)>>}

(***************************************************************************)
(* State.  log is the history of the calls of store(), datasets that of    *)
(* the calls of storeDataset(), job the call of storeDataset() under way,  *)
(* sessions the history of the calls of createSession() and                *)
(* updateSession(), collect the run of collectHistoricalData() under way   *)
(* or how the last one ended, puts the calls of store() that run           *)
(* concurrently, calc the arguments and the result of a call of one of the *)
(* statistics functions, or the history of the calls of MetricsAggregator. *)
(***************************************************************************)
VARIABLES now, disk, log, datasets, job, sessions, collect, puts, calc

vars == <<now, disk, log, datasets, job, sessions, collect, puts, calc>>

\* what the calls of the store proper leave alone
others == <<sessions, collect, puts, calc>>

NoCalc == [f |-> "none"]

InitStore ==
  /\ now = 0
  /\ disk = [t \in TypeSet |-> EmptyDir]
  /\ log = <<>>
  /\ datasets = <<>>
  /\ job = Idle
  /\ sessions = <<>>
  /\ collect = Idle
  /\ puts = <<>>

Init ==
  /\ InitStore
  /\ calc = NoCalc

\* the clock moves on
Tick ==
  /\ now < MaxClock
  /\ now' = now + 1
  /\ UNCHANGED <<disk, log, datasets, job, others>>

Store(type, key, data, metadata, ttl) ==
  /\ job = Idle
  /\ Len(log) < MaxStores
  /\ disk' = [disk EXCEPT ![type] = StoreDir(@, type, key, data, metadata, ttl, now)]
  /\ log' = Append(log, [type |-> type, key |-> key, id |-> GenerateId(key, now),
                         data |-> data, metadata |-> metadata, ttl |-> ttl, at |-> now])
  /\ UNCHANGED <<now, datasets, job, others>>

Retrieve(type, keyOrId) ==
  /\ job = Idle
  /\ disk' = [disk EXCEPT ![type] = RetrieveIn(@, keyOrId, now).dir]
  /\ UNCHANGED <<now, log, datasets, job, others>>

\* the files list() unlinks are the same for every order of readdir
List(type, filter) ==
  /\ job = Idle
  /\ disk' = [disk EXCEPT ![type] = ListIn(@, SomeOrder(DOMAIN @), filter, now).dir]
  /\ UNCHANGED <<now, log, datasets, job, others>>

\* the clock may move between the scan of list() and the loop after it
CleanupExpired ==
  /\ job = Idle
  /\ \E swept \in {now, now + 1} :
       /\ swept <= MaxClock
       /\ disk' = CleanupIn(disk, now, swept).fs
       /\ now' = swept
  /\ UNCHANGED <<log, datasets, job, others>>

\* storeDataset is called: it runs up to the end of its first store()
StoreDataset(key, data, chunkSize) ==
  /\ job = Idle
  /\ Len(datasets) < MaxDatasets
  /\ LET step == DatasetStep(DatasetJob(key, data, chunkSize, now), disk["cache"], now) IN
       /\ job' = step.job
       /\ disk' = [disk EXCEPT !["cache"] = step.dir]
  /\ datasets' = Append(datasets, [key |-> key, data |-> data, chunkSize |-> chunkSize, at |-> now])
  /\ UNCHANGED <<now, log, others>>

\* a running storeDataset does its next store()
StoreDatasetStep ==
  /\ job # Idle
  /\ LET step == DatasetStep(job, disk["cache"], now) IN
       /\ job' = step.job
       /\ disk' = [disk EXCEPT !["cache"] = step.dir]
  /\ UNCHANGED <<now, log, datasets, others>>

RetrieveDataset(key) ==
  /\ job = Idle
  /\ disk' = [disk EXCEPT !["cache"] = RetrieveDatasetIn(@, key, now).dir]
  /\ UNCHANGED <<now, log, datasets, job, others>>

\* what a caller may pass to retrieve: a key, the name of a file, an id of no record
UnknownId == "00000000-0"
Names == Keys \cup UNION {DOMAIN disk[t] : t \in TypeSet} \cup {UnknownId}

StoreCalls ==
  \E type \in InputTypes, key \in Keys, r \in Requests :
    Store(type, key, r.data, r.metadata, r.ttl)

Reads ==
  \/ \E type \in InputTypes, keyOrId \in Names : Retrieve(type, keyOrId)
  \/ \E type \in InputTypes, filter \in Filters : List(type, filter)
  \/ CleanupExpired

DatasetCalls ==
  \/ \E key \in DatasetKeys, data \in ItemSeqs, chunkSize \in 1..MaxChunkSize :
       StoreDataset(key, data, chunkSize)
  \/ StoreDatasetStep
  \/ \E key \in DatasetKeys : RetrieveDataset(key)

Next == Tick \/ StoreCalls \/ Reads

Spec == Init /\ [][Next]_vars

DatasetReads ==
  \/ \E keyOrId \in DOMAIN disk["cache"] : Retrieve("cache", keyOrId)
  \/ List("cache", <<>>)
  \/ CleanupExpired

NextDataset == Tick \/ DatasetCalls \/ DatasetReads

SpecDataset == Init /\ [][NextDataset]_vars

\* a file left cut short, as by a writeFile that did not finish: at most
\* MaxDamaged files are in that state at a time
MaxDamaged == 1
Unparseable == UNION {{<<t, f>> : f \in {x \in DOMAIN disk[t] : ~Parse(disk[t][x]).ok}} : t \in TypeSet}

Damage(type, f) ==
  /\ job = Idle
  /\ f \in DOMAIN disk[type]
  /\ Parse(disk[type][f]).ok
  /\ Cardinality(Unparseable) < MaxDamaged
  /\ disk' = [disk EXCEPT ![type][f] = SubSeq(@, 1, Len(@) - 1)]
  /\ UNCHANGED <<now, log, datasets, job, others>>

Damages == \E type \in InputTypes, f \in Names : Damage(type, f)

NextDamaged == Tick \/ StoreCalls \/ Reads \/ Damages

SpecDamaged == Init /\ [][NextDamaged]_vars

(***************************************************************************)
(* Sessions.                                                               *)
(***************************************************************************)
MaxSessions == 2
MaxUpdates == 2
SessionTypes == {"test-session"}
InitialData == {Undefined, JObj(<< <<"initial", JStr("data")>> >>)}
Updates == {<< <<"additional", JStr("info")>> >>,
            << <<"steps", JArr(<<JStr("step1"), JStr("step2")>>)>> >>,
            << <<"initial", JStr("other")>> >>,
            << <<"additional", JStr("more")>>, <<"data", JStr("x")>> >>}

Creations == SelectSeq(sessions, LAMBDA e : e.op = "create")
UpdateCalls == SelectSeq(sessions, LAMBDA e : e.op = "update")

CreateSession(sessionType, initialData) ==
  /\ job = Idle
  /\ Len(Creations) < MaxSessions
  /\ disk' = [disk EXCEPT !["session"] = CreateSessionDir(@, sessionType, initialData, now)]
  /\ sessions' = Append(sessions, [op |-> "create", id |-> SessionId(sessionType, now),
                                   data |-> OrEmpty(initialData), at |-> now, threw |-> FALSE])
  /\ UNCHANGED <<now, log, datasets, job, collect, puts, calc>>

UpdateSession(sessionId, updates) ==
  /\ job = Idle
  /\ Len(UpdateCalls) < MaxUpdates
  /\ LET r == UpdateSessionIn(disk["session"], sessionId, updates, now) IN
       /\ disk' = [disk EXCEPT !["session"] = r.dir]
       /\ sessions' = Append(sessions, [op |-> "update", id |-> sessionId,
                                        data |-> JObj(updates), at |-> now, threw |-> r.threw])
  /\ UNCHANGED <<now, log, datasets, job, collect, puts, calc>>

\* the session ids a caller may pass: those createSession() returned, the id
\* of no session, and the name of the index file
SessionNames == {sessions[i].id : i \in 1..Len(sessions)} \cup {UnknownId, IndexFile}

SessionCalls ==
  \/ \E sessionType \in SessionTypes, initialData \in InitialData :
       CreateSession(sessionType, initialData)
  \/ \E sessionId \in SessionNames, updates \in Updates : UpdateSession(sessionId, updates)

NextSession == Tick \/ SessionCalls

SpecSession == Init /\ [][NextSession]_vars

(***************************************************************************)
(* Runs of collectHistoricalData.  A request of a collector to the         *)
(* Analytics service may fail, and so may a write of store().              *)
(***************************************************************************)
Project == "P"
EpochDay == [start |-> 0, end |-> 0]
MetricTypes == {<<>>, <<"velocity">>}

\* the record of a call of updateSession(), r what it gave
UpdateEntry(sessionId, updates, r) ==
  [op |-> "update", id |-> sessionId, data |-> JObj(updates), at |-> now, threw |-> r.threw]

\* how a run of collectHistoricalData() ended, and when
Returned(sessionId, ms) == [op |-> "returned", id |-> sessionId, at |-> ms]
Thrown(sessionId, ms) == [op |-> "threw", id |-> sessionId, at |-> ms]

\* the session is created and the collectors start
CollectHistoricalData(metricTypes) ==
  /\ job = Idle /\ collect.op \in {"idle", "returned", "threw"}
  /\ Len(Creations) < MaxSessions
  /\ disk' = [disk EXCEPT !["session"] =
                CreateSessionDir(@, "historical-collection",
                                 CollectionData(Project, EpochDay, metricTypes, now), now)]
  /\ sessions' = Append(sessions,
       [op |-> "create", id |-> SessionId("historical-collection", now),
        data |-> CollectionData(Project, EpochDay, metricTypes, now), at |-> now, threw |-> FALSE])
  /\ collect' = [op |-> "collecting", id |-> SessionId("historical-collection", now),
                 types |-> metricTypes, step |-> 0]
  /\ UNCHANGED <<now, log, datasets, job, puts, calc>>

\* the catch block: the error is recorded, then thrown on
Catch(dir, message) ==
  /\ LET r == UpdateSessionIn(dir, collect.id, Failed(message), now) IN
       /\ disk' = [disk EXCEPT !["session"] = r.dir]
       /\ sessions' = Append(sessions, UpdateEntry(collect.id, Failed(message), r))
  /\ collect' = Thrown(collect.id, now)

\* a collector throws
CollectorFails ==
  /\ collect.op = "collecting"
  /\ collect.types # <<>>
  /\ Catch(disk["session"], "request failed")
  /\ UNCHANGED <<now, log, datasets, job, puts, calc>>

\* the collectors have returned: status completed is recorded, and when that
\* update throws the catch block runs
Collected ==
  /\ collect.op = "collecting"
  /\ LET r == UpdateSessionIn(disk["session"], collect.id, Completed(collect.types, now), now)
         c == UpdateSessionIn(r.dir, collect.id, Failed("Session " \o collect.id \o " not found"), now)
     IN IF r.threw
        THEN /\ disk' = [disk EXCEPT !["session"] = c.dir]
             /\ sessions' = sessions
                  \o <<UpdateEntry(collect.id, Completed(collect.types, now), r),
                       UpdateEntry(collect.id, Failed("Session " \o collect.id \o " not found"), c)>>
             /\ collect' = Thrown(collect.id, now)
        ELSE /\ disk' = [disk EXCEPT !["session"] = r.dir]
             /\ sessions' = Append(sessions,
                                   UpdateEntry(collect.id, Completed(collect.types, now), r))
             /\ collect' = [collect EXCEPT !.op = "aggregating", !.step = 1]
  /\ UNCHANGED <<now, log, datasets, job, puts, calc>>

\* the next store() of generateAggregations() goes through
Aggregate ==
  /\ collect.op = "aggregating"
  /\ LET stores == GenerateAggregations(Project, EpochDay)
         st == stores[collect.step]
     IN /\ disk' = [disk EXCEPT !["cache"] =
                      StoreDir(@, "cache", st.key, st.data,
                               << <<"project", JStr(Project)>> >>, JNum(st.ttl), now)]
        /\ collect' = IF collect.step = Len(stores) THEN Returned(collect.id, now)
                      ELSE [collect EXCEPT !.step = @ + 1]
  /\ UNCHANGED <<now, log, datasets, job, sessions, puts, calc>>

\* the next store() of generateAggregations() rejects: nothing is written
AggregateFails ==
  /\ collect.op = "aggregating"
  /\ Catch(disk["session"], "write failed")
  /\ UNCHANGED <<now, log, datasets, job, puts, calc>>

CollectSteps ==
  \/ \E metricTypes \in MetricTypes : CollectHistoricalData(metricTypes)
  \/ CollectorFails
  \/ Collected
  \/ Aggregate
  \/ AggregateFails

NextCollect == Tick \/ CollectSteps

SpecCollect == Init /\ [][NextCollect]_vars

(***************************************************************************)
(* Calls of store() that run concurrently.  A call runs without            *)
(* interruption up to its first await, then one file operation at a time:  *)
(* the write of the record file, the read of the index, the write of the   *)
(* index.  puts holds one entry per call.                                  *)
(***************************************************************************)
MaxPuts == 2
PutKeys == {"a", "b"}
PutData == {Payload1, Payload2}

\* store() is called: the id and the record are built before the first await
PutStart(type, key, data) ==
  /\ job = Idle
  /\ Len(puts) < MaxPuts
  /\ puts' = Append(puts, [type |-> type, key |-> key, data |-> data, at |-> now,
                           id |-> GenerateId(key, now),
                           record |-> StoredData(type, key, data, <<>>, Undefined, now),
                           pc |-> "writeFile", index |-> Null,
                           overlaps |-> \E i \in 1..Len(puts) : puts[i].pc # "done"])
  /\ UNCHANGED <<now, disk, log, datasets, job, sessions, collect, calc>>

\* fs.writeFile of the record file completes
PutWriteFile(i) ==
  /\ puts[i].pc = "writeFile"
  /\ disk' = [disk EXCEPT ![puts[i].type] = WriteFile(@, puts[i].id, Stringify(puts[i].record))]
  /\ puts' = [puts EXCEPT ![i].pc = "readIndex"]
  /\ UNCHANGED <<now, log, datasets, job, sessions, collect, calc>>

\* updateIndex() has read the index file
PutReadIndex(i) ==
  /\ puts[i].pc = "readIndex"
  /\ puts' = [puts EXCEPT ![i].pc = "writeIndex", ![i].index = ReadIndex(disk[puts[i].type])]
  /\ UNCHANGED <<now, disk, log, datasets, job, sessions, collect, calc>>

\* updateIndex() writes the index it read, with its own entry set
PutWriteIndex(i) ==
  /\ puts[i].pc = "writeIndex"
  /\ disk' = [disk EXCEPT ![puts[i].type] =
                WriteIndex(@, puts[i].index, puts[i].id, puts[i].key)]
  /\ puts' = [puts EXCEPT ![i].pc = "done"]
  /\ UNCHANGED <<now, log, datasets, job, sessions, collect, calc>>

PutSteps ==
  \/ \E key \in PutKeys, data \in PutData : PutStart("cache", key, data)
  \/ \E i \in 1..Len(puts) : PutWriteFile(i)
  \/ \E i \in 1..Len(puts) : PutReadIndex(i)
  \/ \E i \in 1..Len(puts) : PutWriteIndex(i)

NextPuts == Tick \/ PutSteps

SpecPuts == Init /\ [][NextPuts]_vars

(***************************************************************************)
(* The statistics functions.  Numbers are integers; a value a function     *)
(* returns is a JSON number or undefined.                                  *)
(***************************************************************************)
Max(a, b) == IF a > b THEN a ELSE b

RECURSIVE InsertAscending(_, _)
InsertAscending(sorted, x) ==
  IF sorted = <<>> THEN <<x>>
  ELSE IF x < sorted[1] THEN <<x>> \o sorted
  ELSE <<sorted[1]>> \o InsertAscending(Tail(sorted), x)

RECURSIVE SortAscending(_)
\* values.sort((a, b) => a - b)
SortAscending(values) ==
  IF values = <<>> THEN <<>>
  ELSE InsertAscending(SortAscending(SubSeq(values, 1, Len(values) - 1)), values[Len(values)])

\* array[index] for index >= 0: undefined past the end
ElementAt(array, index) ==
  IF index < Len(array) THEN JNum(array[index + 1]) ELSE Undefined

\* a percentile that takes the rank from the top
GetPercentileFromTop(sortedValues, percentile) ==
  ElementAt(sortedValues,
            Max(0, Len(sortedValues) - CeilDiv(percentile * Len(sortedValues), 100)))

\* DeploymentMetricsCollector.getPercentile
GetPercentile(sortedValues, percentile) ==
  ElementAt(sortedValues, Max(0, CeilDiv(percentile * Len(sortedValues), 100) - 1))

\* a <= b in JavaScript for numbers and undefined
LessEq(a, b) == a.t = "num" /\ b.t = "num" /\ a.v <= b.v

(***************************************************************************)
(* predictDelivery(): the Monte Carlo simulation, one velocity draw at a   *)
(* time, then the three percentiles of the sorted sprint counts.  The      *)
(* dates, texts and the cache entry of the prediction derive from these.   *)
(* A draw is mean + z * stdDev for a random normal deviate z.              *)
(***************************************************************************)
MaxTrials == 2
SprintCap == 100
RemainingWorks == {0, 3}
AvgVelocities == {-1, 0, 2}
StdDevs == {0, 1}
Deviates == {-1, 0, 1}
ConfidenceLevels == {10, 50, 85, 150}

InitForecast ==
  /\ InitStore
  /\ \E remainingWork \in RemainingWorks, avgVelocity \in AvgVelocities,
        stdDev \in StdDevs, iterations \in 1..MaxTrials :
       calc = [f |-> "predictDelivery", remainingWork |-> remainingWork,
               avgVelocity |-> avgVelocity, stdDev |-> stdDev, iterations |-> iterations,
               pc |-> "simulate", i |-> 0, work |-> remainingWork, sprints |-> 0,
               results |-> <<>>, confidenceLevel |-> 0,
               optimistic |-> Undefined, likely |-> Undefined, pessimistic |-> Undefined]

\* a faulty safety check that lets one more draw through
BrokenLate(sprints) == sprints > SprintCap + 1

\* if (sprints > 100) break
Broken(sprints) == sprints > SprintCap

\* one pass of the while loop: a velocity is drawn and taken off the work
Draw(z) ==
  /\ calc.f = "predictDelivery" /\ calc.pc = "simulate"
  /\ calc.i < calc.iterations
  /\ calc.work > 0 /\ ~Broken(calc.sprints)
  /\ calc' = [calc EXCEPT !.work = @ - Max(0, calc.avgVelocity + z * calc.stdDev),
                          !.sprints = @ + 1]
  /\ UNCHANGED <<now, disk, log, datasets, job, sessions, collect, puts>>

\* the while loop is left: results.push(sprints), and the next trial starts
EndTrial ==
  /\ calc.f = "predictDelivery" /\ calc.pc = "simulate"
  /\ calc.i < calc.iterations
  /\ calc.work <= 0 \/ Broken(calc.sprints)
  /\ calc' = [calc EXCEPT !.results = Append(@, calc.sprints), !.i = @ + 1,
                          !.work = calc.remainingWork, !.sprints = 0]
  /\ UNCHANGED <<now, disk, log, datasets, job, sessions, collect, puts>>

\* the simulation returns its sorted results and the percentiles are taken
Predict(confidenceLevel) ==
  /\ calc.f = "predictDelivery" /\ calc.pc = "simulate"
  /\ calc.i = calc.iterations
  /\ calc' = [calc EXCEPT
       !.pc = "returned", !.confidenceLevel = confidenceLevel,
       !.results = SortAscending(@),
       !.optimistic = GetPercentile(SortAscending(calc.results), 100 - confidenceLevel),
       !.likely = GetPercentile(SortAscending(calc.results), 50),
       !.pessimistic = GetPercentile(SortAscending(calc.results), confidenceLevel)]
  /\ UNCHANGED <<now, disk, log, datasets, job, sessions, collect, puts>>

NextForecast ==
  \/ \E z \in Deviates : Draw(z)
  \/ EndTrial
  \/ \E confidenceLevel \in ConfidenceLevels : Predict(confidenceLevel)

SpecForecast == InitForecast /\ [][NextForecast]_vars

\* the simulation is a loop of one thread: it goes on until it returns
SpecForecastFair == SpecForecast /\ WF_vars(NextForecast)

(***************************************************************************)
(* The percentile functions: a call with percentile p and one with q on    *)
(* the same values, by one of the three implementations.                   *)
(***************************************************************************)
MaxValues == 3
ValueRange == 1..3
ValueSeqs == UNION {[1..n -> ValueRange] : n \in 0..MaxValues}
Percentiles == {-10, 0, 50, 100, 150}

\* MetricsAggregator.calculatePercentile and AdvancedAnalytics.calculatePercentile
CalculatePercentile(values, percentile) ==
  IF Len(values) = 0 THEN JNum(0)
  ELSE ElementAt(SortAscending(values),
                 Max(0, CeilDiv(percentile * Len(SortAscending(values)), 100) - 1))

InitPercentile ==
  /\ InitStore
  /\ \E values \in ValueSeqs, p \in Percentiles, q \in Percentiles :
       calc = [f |-> "percentile", values |-> values, p |-> p, q |-> q, pc |-> "call",
               by |-> "none", atP |-> Undefined, atQ |-> Undefined, left |-> values]

\* MetricsAggregator: values.sort() sorts the caller's array
MetricsAggregatorPercentile ==
  /\ calc.f = "percentile" /\ calc.pc = "call"
  /\ calc' = [calc EXCEPT !.pc = "returned", !.by = "MetricsAggregator",
                          !.atP = CalculatePercentile(calc.values, calc.p),
                          !.atQ = CalculatePercentile(calc.values, calc.q),
                          !.left = IF Len(calc.values) = 0 THEN @ ELSE SortAscending(@)]
  /\ UNCHANGED <<now, disk, log, datasets, job, sessions, collect, puts>>

\* AdvancedAnalytics: [...values].sort() sorts a copy
AdvancedAnalyticsPercentile ==
  /\ calc.f = "percentile" /\ calc.pc = "call"
  /\ calc' = [calc EXCEPT !.pc = "returned", !.by = "AdvancedAnalytics",
                          !.atP = CalculatePercentile(calc.values, calc.p),
                          !.atQ = CalculatePercentile(calc.values, calc.q)]
  /\ UNCHANGED <<now, disk, log, datasets, job, sessions, collect, puts>>

\* DeploymentMetricsCollector: the values are taken as they are given
DeploymentMetricsPercentile ==
  /\ calc.f = "percentile" /\ calc.pc = "call"
  /\ calc' = [calc EXCEPT !.pc = "returned", !.by = "DeploymentMetricsCollector",
                          !.atP = GetPercentile(calc.values, calc.p),
                          !.atQ = GetPercentile(calc.values, calc.q)]
  /\ UNCHANGED <<now, disk, log, datasets, job, sessions, collect, puts>>

NextPercentile ==
  \/ MetricsAggregatorPercentile
  \/ AdvancedAnalyticsPercentile
  \/ DeploymentMetricsPercentile

SpecPercentile == InitPercentile /\ [][NextPercentile]_vars

(***************************************************************************)
(* The trend classifiers.  Averages are kept as sum and count, so the      *)
(* comparisons of quotients are exact.                                     *)
(***************************************************************************)
RECURSIVE Sum(_)
Sum(values) == IF values = <<>> THEN 0 ELSE values[1] + Sum(Tail(values))

\* values.slice(0, Math.floor(values.length / 2)) and values.slice(that)
FirstHalf(values) == SubSeq(values, 1, Len(values) \div 2)
SecondHalf(values) == SubSeq(values, Len(values) \div 2 + 1, Len(values))

\* change = (secondAvg - firstAvg) / firstAvg against 0.1 and -0.1, the
\* averages being s1 / n1 and s2 / n2: change is (s2 * n1 - s1 * n2) over
\* (s1 * n2), infinite or NaN when s1 = 0
ChangeDirection(s1, n1, s2, n2) ==
  LET num == s2 * n1 - s1 * n2
      den == s1 * n2
  IN IF den > 0 THEN (IF 10 * num > den THEN "increasing"
                      ELSE IF 10 * num < -den THEN "decreasing" ELSE "stable")
     ELSE IF den < 0 THEN (IF 10 * num < den THEN "increasing"
                           ELSE IF 10 * num > -den THEN "decreasing" ELSE "stable")
     ELSE IF num > 0 THEN "increasing"
     ELSE IF num < 0 THEN "decreasing" ELSE "stable"

\* HistoricalDataCollector.calculateTrend(dataPoints).direction
HistoricalTrend(values) ==
  IF Len(values) < 2 THEN "stable"
  ELSE ChangeDirection(Sum(FirstHalf(values)), Len(FirstHalf(values)),
                       Sum(SecondHalf(values)), Len(SecondHalf(values)))

\* DataExtractor.calculateTrend
ExtractorTrend(values) ==
  IF Len(values) < 2 THEN "insufficient-data"
  ELSE ChangeDirection(Sum(FirstHalf(values)), Len(FirstHalf(values)),
                       Sum(SecondHalf(values)), Len(SecondHalf(values)))

\* secondAvg < firstAvg * 0.9, secondAvg > firstAvg * 1.1 on s1 / n1, s2 / n2
RatioTrend(s1, n1, s2, n2) ==
  IF 10 * s2 * n1 < 9 * s1 * n2 THEN "improving"
  ELSE IF 10 * s2 * n1 > 11 * s1 * n2 THEN "degrading" ELSE "stable"

\* AdvancedAnalytics.calculateTrend
AnalyticsTrend(values) ==
  IF Len(values) < 2 THEN "stable"
  ELSE RatioTrend(Sum(FirstHalf(values)), Len(FirstHalf(values)),
                  Sum(SecondHalf(values)), Len(SecondHalf(values)))

\* the sequences classified: start, start + step, ... with the second half
\* lifted by jump
TrendPoints == 6
Starts == {-20, -1, 0, 1, 10, 100}
Steps == {-10, -1, 0, 1, 10}
Jumps == {0, 5}
Series(n, start, step, jump) ==
  [i \in 1..n |-> start + (i - 1) * step + (IF i > n \div 2 THEN jump ELSE 0)]

InitTrend ==
  /\ InitStore
  /\ \E n \in {2, TrendPoints}, start \in Starts, step \in Steps, jump \in Jumps :
       calc = [f |-> "trend", values |-> Series(n, start, step, jump),
               pc |-> "call", by |-> "none", trend |-> "none"]

Classified(by, trend) ==
  /\ calc.f = "trend" /\ calc.pc = "call"
  /\ calc' = [calc EXCEPT !.pc = "returned", !.by = by, !.trend = trend]
  /\ UNCHANGED <<now, disk, log, datasets, job, sessions, collect, puts>>

HistoricalCalculateTrend == Classified("HistoricalDataCollector", HistoricalTrend(calc.values))
ExtractorCalculateTrend == Classified("DataExtractor", ExtractorTrend(calc.values))
AnalyticsCalculateTrend == Classified("AdvancedAnalytics", AnalyticsTrend(calc.values))

NextTrend == HistoricalCalculateTrend \/ ExtractorCalculateTrend \/ AnalyticsCalculateTrend

SpecTrend == InitTrend /\ [][NextTrend]_vars

(***************************************************************************)
(* The DORA classifiers.  A metric value is the quotient n / d of two      *)
(* integers, d > 0, and is compared with a threshold by cross              *)
(* multiplication.  A state holds two values x and y and their tiers.      *)
(***************************************************************************)
\* a faulty classifier with strict comparisons
ClassifyDeploymentFrequencyStrict(n, d) ==
  IF n > d THEN "elite"
  ELSE IF 7 * n > d THEN "high"
  ELSE IF 30 * n > d THEN "medium" ELSE "low"

\* classifyDeploymentFrequency(n / d): thresholds 1, 1/7, 1/30
ClassifyDeploymentFrequency(n, d) ==
  IF n >= d THEN "elite"
  ELSE IF 7 * n >= d THEN "high"
  ELSE IF 30 * n >= d THEN "medium" ELSE "low"

\* classifyLeadTime(n / d hours): thresholds 1, 24 * 7, 24 * 30
ClassifyLeadTime(n, d) ==
  IF n < d THEN "elite"
  ELSE IF n < 24 * 7 * d THEN "high"
  ELSE IF n < 24 * 30 * d THEN "medium" ELSE "low"

\* classifyMTTR(n / d minutes): thresholds 60, 60 * 24, 60 * 24 * 7
ClassifyMTTR(n, d) ==
  IF n < 60 * d THEN "elite"
  ELSE IF n < 60 * 24 * d THEN "high"
  ELSE IF n < 60 * 24 * 7 * d THEN "medium" ELSE "low"

\* classifyFailureRate(n / d percent): thresholds 15, 30, 45
ClassifyFailureRate(n, d) ==
  IF n <= 15 * d THEN "elite"
  ELSE IF n <= 30 * d THEN "high"
  ELSE IF n <= 45 * d THEN "medium" ELSE "low"

Numerators == {0, 1, 14, 15, 16, 30, 31, 45, 46, 59, 60, 99, 100, 167, 168, 169,
               719, 720, 1439, 1440, 10079, 10080}
Denominators == {1, 7, 30, 100}
Quotients == [n : Numerators, d : Denominators]

InitDora ==
  /\ InitStore
  /\ \E x \in Quotients, y \in Quotients :
       calc = [f |-> "dora", x |-> x, y |-> y, pc |-> "call", by |-> "none",
               tierX |-> "none", tierY |-> "none"]

Tiered(by, tierX, tierY) ==
  /\ calc.f = "dora" /\ calc.pc = "call"
  /\ calc' = [calc EXCEPT !.pc = "returned", !.by = by, !.tierX = tierX, !.tierY = tierY]
  /\ UNCHANGED <<now, disk, log, datasets, job, sessions, collect, puts>>

DeploymentFrequencyTier ==
  Tiered("deploymentFrequency", ClassifyDeploymentFrequency(calc.x.n, calc.x.d),
         ClassifyDeploymentFrequency(calc.y.n, calc.y.d))
LeadTimeTier ==
  Tiered("leadTime", ClassifyLeadTime(calc.x.n, calc.x.d), ClassifyLeadTime(calc.y.n, calc.y.d))
MTTRTier ==
  Tiered("mttr", ClassifyMTTR(calc.x.n, calc.x.d), ClassifyMTTR(calc.y.n, calc.y.d))
FailureRateTier ==
  Tiered("failureRate", ClassifyFailureRate(calc.x.n, calc.x.d),
         ClassifyFailureRate(calc.y.n, calc.y.d))

NextDora == DeploymentFrequencyTier \/ LeadTimeTier \/ MTTRTier \/ FailureRateTier

SpecDora == InitDora /\ [][NextDora]_vars

(***************************************************************************)
(* Spike detection.  A baseline is a median or an average, kept as the     *)
(* quotient n / d with d > 0, so the comparisons are exact.                *)
(***************************************************************************)
MaxDays == 3
Counts == {0, 5, 6, 10, 11, 15, 16, 20, 21}
\* the daily counts of the repository's test, added to the short series
TestCounts == <<5, 5, 20, 6, 5>>
CountSeqs == UNION {[1..n -> Counts] : n \in 0..MaxDays} \cup {TestCounts}
Baselines == {[n |-> 0, d |-> 1], [n |-> 5, d |-> 1], [n |-> 5, d |-> 2], [n |-> 11, d |-> 2]}

\* the rows the analytics query returns for the counts of successive days
RowsOf(counts) == [i \in 1..Len(counts) |-> [DateSK |-> 20241200 + i, Count |-> counts[i]]]

\* formatDate(dateSK): the digits of an eight-digit number, cut 4-2-2
FormatDate(dateSK) ==
  ToString(dateSK \div 10000) \o "-" \o Pad2((dateSK \div 100) % 100) \o "-" \o Pad2(dateSK % 100)

\* a severity scale that starts high at 3 x baseline
SeverityFromThree(count, baseline) ==
  IF count * baseline.d > baseline.n * 3 THEN "high" ELSE "low"

\* d.Count > baseline * 4 ? 'high' : d.Count > baseline * 3 ? 'medium' : 'low'
Severity(count, baseline) ==
  IF count * baseline.d > baseline.n * 4 THEN "high"
  ELSE IF count * baseline.d > baseline.n * 3 THEN "medium" ELSE "low"

RECURSIVE DetectSpikes(_, _)
\* AdvancedAnalytics.detectSpikes: filter, then map
DetectSpikes(data, baseline) ==
  IF data = <<>> THEN <<>>
  ELSE (IF data[1].Count * baseline.d > baseline.n * 2
        THEN <<[date |-> FormatDate(data[1].DateSK), value |-> data[1].Count,
                severity |-> Severity(data[1].Count, baseline)]>>
        ELSE <<>>)
       \o DetectSpikes(Tail(data), baseline)

\* the trend and the daily average of getThroughputMetrics: Count || 0 is
\* the count, the date is that of the row in universal time
ThroughputTrend(rows) ==
  [i \in 1..Len(rows) |-> [date |-> FormatDate(rows[i].DateSK), count |-> rows[i].Count]]
RECURSIVE SumCounts(_)
SumCounts(trend) == IF trend = <<>> THEN 0 ELSE trend[1].count + SumCounts(Tail(trend))
DailyAvg(trend) ==
  IF Len(trend) > 0 THEN [n |-> SumCounts(trend), d |-> Len(trend)] ELSE [n |-> 0, d |-> 1]
GetThroughputMetrics(rows) ==
  [daily |-> DailyAvg(ThroughputTrend(rows)),
   trend |-> SubSeq(ThroughputTrend(rows), 1, Min(30, Len(rows)))]

RECURSIVE SpikesOver(_, _)
\* the filter and map of getThroughputWithSpikes: deviation > baseline * 2
SpikesOver(trend, baseline) ==
  IF trend = <<>> THEN <<>>
  ELSE (IF trend[1].count * baseline.d - baseline.n > baseline.n * 2
        THEN <<[date |-> trend[1].date, count |-> trend[1].count,
                deviationFromBaseline |->
                  [n |-> trend[1].count * baseline.d - baseline.n, d |-> baseline.d]]>>
        ELSE <<>>)
       \o SpikesOver(Tail(trend), baseline)

InitSpikes ==
  /\ InitStore
  /\ \E counts \in CountSeqs, baseline \in Baselines :
       calc = [f |-> "spikes", counts |-> counts, baseline |-> baseline, pc |-> "call",
               by |-> "none", spikes |-> <<>>]

\* analyzeThroughput's call detectSpikes(dailyData, baseline)
AnalyzeThroughputSpikes ==
  /\ calc.f = "spikes" /\ calc.pc = "call"
  /\ calc' = [calc EXCEPT !.pc = "returned", !.by = "detectSpikes",
                          !.spikes = DetectSpikes(RowsOf(calc.counts), calc.baseline)]
  /\ UNCHANGED <<now, disk, log, datasets, job, sessions, collect, puts>>

\* getThroughputWithSpikes: the baseline is the daily average of the rows
GetThroughputWithSpikes ==
  /\ calc.f = "spikes" /\ calc.pc = "call"
  /\ calc' = [calc EXCEPT !.pc = "returned", !.by = "getThroughputWithSpikes",
                          !.baseline = GetThroughputMetrics(RowsOf(calc.counts)).daily,
                          !.spikes = SpikesOver(GetThroughputMetrics(RowsOf(calc.counts)).trend,
                                                GetThroughputMetrics(RowsOf(calc.counts)).daily)]
  /\ UNCHANGED <<now, disk, log, datasets, job, sessions, collect, puts>>

NextSpikes == AnalyzeThroughputSpikes \/ GetThroughputWithSpikes

SpecSpikes == InitSpikes /\ [][NextSpikes]_vars

(***************************************************************************)
(* MetricsAggregator: the sprint, flow and DORA bundles computed on        *)
(* demand, each stored for one hour.  calc holds the history of the calls. *)
(* A quotient the code computes is whole for every input of the model.     *)
(***************************************************************************)
MaxMetricCalls == 2
Projects == {"P", "Q"}
OneDay == [start |-> 0, end |-> DayMs]
TwoDays == [start |-> 0, end |-> 2 * DayMs]
DateRanges == {OneDay, TwoDays}
\* what a call without a date range records as its range
NoRange == [start |-> -1, end |-> -1]
\* the work items the record source returns: none, or two finished and one
\* under way
WorkItems ==
  {<<>>,
   <<[State |-> "Done", CycleTimeDays |-> 2, LeadTimeDays |-> 4, StoryPoints |-> 3],
     [State |-> "Closed", CycleTimeDays |-> 4, LeadTimeDays |-> 8, StoryPoints |-> 3],
     [State |-> "Active", CycleTimeDays |-> 0, LeadTimeDays |-> 0, StoryPoints |-> 6]>>}
\* the iterations it returns: none, or one sprint without dates
Iterations == {<<>>, <<[IterationSK |-> "S1", IterationPath |-> "Sprint 1"]>>}

IsCompleted(wi) == wi.State = "Done" \/ wi.State = "Closed"
IsInProgress(wi) == wi.State = "Active" \/ wi.State = "In Progress" \/ wi.State = "Committed"

RECURSIVE CompletedTimes(_, _)
\* cycleTimes and leadTimes: the field of the completed items that carry it
CompletedTimes(workItems, field) ==
  IF workItems = <<>> THEN <<>>
  ELSE (IF IsCompleted(workItems[1]) /\ workItems[1][field] # 0
        THEN <<workItems[1][field]>> ELSE <<>>)
       \o CompletedTimes(Tail(workItems), field)

\* the length of the list of the work items that pass the test
CountItems(workItems, Test(_)) ==
  Cardinality({i \in 1..Len(workItems) : Test(workItems[i])})

CalculateAverage(values) == IF Len(values) = 0 THEN 0 ELSE Sum(values) \div Len(values)

CalculateFlowEfficiency(cycleTimes, leadTimes) ==
  IF Len(cycleTimes) = 0 \/ Len(leadTimes) = 0 THEN 0
  ELSE IF CalculateAverage(leadTimes) > 0
       THEN (CalculateAverage(cycleTimes) * 100) \div CalculateAverage(leadTimes)
       ELSE 0

GetDaysBetween(range) ==
  CeilDiv(IF range.end >= range.start THEN range.end - range.start
          ELSE range.start - range.end, DayMs)

\* average, median, p85 and p95 of cycle or lead times
TimesOf(values) ==
  JObj(<< <<"average", JNum(CalculateAverage(values))>>,
          <<"median", CalculatePercentile(values, 50)>>,
          <<"p85", CalculatePercentile(values, 85)>>,
          <<"p95", CalculatePercentile(values, 95)>> >>)

\* the bundle calculateFlowMetrics builds from work items
FlowMetrics(workItems, range) ==
  JObj(<< <<"cycleTime", TimesOf(CompletedTimes(workItems, "CycleTimeDays"))>>,
          <<"leadTime", TimesOf(CompletedTimes(workItems, "LeadTimeDays"))>>,
          <<"throughput",
            JObj(<< <<"daily", JNum(CountItems(workItems, IsCompleted) \div GetDaysBetween(range))>>,
                    <<"weekly", JNum((CountItems(workItems, IsCompleted) \div GetDaysBetween(range)) * 7)>>,
                    <<"monthly", JNum((CountItems(workItems, IsCompleted) \div GetDaysBetween(range)) * 30)>> >>)>>,
          <<"wip", JObj(<< <<"current", JNum(CountItems(workItems, IsInProgress))>>,
                           <<"average", JNum(CountItems(workItems, IsInProgress))>>,
                           <<"limit", Undefined>> >>)>>,
          <<"flowEfficiency",
            JNum(CalculateFlowEfficiency(CompletedTimes(workItems, "CycleTimeDays"),
                                         CompletedTimes(workItems, "LeadTimeDays")))>> >>)

GetEmptyFlowMetrics ==
  JObj(<< <<"cycleTime", JObj(<< <<"average", JNum(0)>>, <<"median", JNum(0)>>,
                                 <<"p85", JNum(0)>>, <<"p95", JNum(0)>> >>)>>,
          <<"leadTime", JObj(<< <<"average", JNum(0)>>, <<"median", JNum(0)>>,
                                <<"p85", JNum(0)>>, <<"p95", JNum(0)>> >>)>>,
          <<"throughput", JObj(<< <<"daily", JNum(0)>>, <<"weekly", JNum(0)>>,
                                  <<"monthly", JNum(0)>> >>)>>,
          <<"wip", JObj(<< <<"current", JNum(0)>>, <<"average", JNum(0)>> >>)>>,
          <<"flowEfficiency", JNum(0)>> >>)

\* the story points of the work items that pass the test
SumPoints(workItems, Test(_)) ==
  Sum([i \in 1..Len(workItems) |->
         IF Test(workItems[i]) THEN workItems[i].StoryPoints ELSE 0])
AnyItem(wi) == TRUE
NotCompleted(wi) == ~IsCompleted(wi)

\* calculateSingleSprintMetrics: a sprint without dates gets Date.now()
CalculateSingleSprintMetrics(sprint, workItems, ms) ==
  JObj(<< <<"sprintId", JStr(sprint.IterationSK)>>,
          <<"sprintName", JStr(sprint.IterationPath)>>,
          <<"startDate", JStr(ToISOString(ms))>>,
          <<"endDate", JStr(ToISOString(ms))>>,
          <<"velocity", JNum(SumPoints(workItems, IsCompleted))>>,
          <<"plannedCapacity", JNum(SumPoints(workItems, AnyItem))>>,
          <<"completedStoryPoints", JNum(SumPoints(workItems, IsCompleted))>>,
          <<"committedStoryPoints", JNum(SumPoints(workItems, AnyItem))>>,
          <<"carryOverPoints", JNum(SumPoints(workItems, NotCompleted))>>,
          <<"completionRate",
            JNum(IF SumPoints(workItems, AnyItem) > 0
                 THEN (SumPoints(workItems, IsCompleted) * 100) \div SumPoints(workItems, AnyItem)
                 ELSE 0)>>,
          <<"burndown", JArr(<<>>)>> >>)

\* the bundle of calculateDoraMetrics: the four measurements are fixed
DoraMetrics ==
  JObj(<< <<"deploymentFrequency",
            JObj(<< <<"deploymentsPerDay", JHalf(3)>>,
                    <<"classification", JStr(ClassifyDeploymentFrequency(3, 2))>> >>)>>,
          <<"leadTimeForChanges",
            JObj(<< <<"hours", JNum(24)>>,
                    <<"classification", JStr(ClassifyLeadTime(24, 1))>> >>)>>,
          <<"mttr",
            JObj(<< <<"minutes", JNum(60)>>,
                    <<"classification", JStr(ClassifyMTTR(60, 1))>> >>)>>,
          <<"changeFailureRate",
            JObj(<< <<"percentage", JNum(15)>>,
                    <<"classification", JStr(ClassifyFailureRate(15, 1))>> >>)>> >>)

\* a Date of a date range, as JSON.stringify writes it
RangeObject(range) ==
  JObj(<< <<"start", JStr(ToISOString(range.start))>>,
          <<"end", JStr(ToISOString(range.end))>> >>)

InitMetrics ==
  /\ InitStore
  /\ calc = [f |-> "metrics", calls |-> <<>>]

\* a call is over: what it returned, and the key it stored that under, if any
MetricCall(metric, project, range, key, stored, bundle) ==
  /\ calc.f = "metrics"
  /\ Len(calc.calls) < MaxMetricCalls
  /\ calc' = [calc EXCEPT !.calls = Append(@,
       [metric |-> metric, project |-> project, range |-> range, at |-> now,
        key |-> key, stored |-> stored, returned |-> bundle])]

StoreAnalysis(key, data, metadata) ==
  disk' = [disk EXCEPT !["analysis"] =
             StoreDir(@, "analysis", key, data, metadata, JNum(HourMs), now)]

CalculateSprintMetrics(project, iterations, workItems) ==
  /\ IF Len(iterations) = 0
     THEN /\ MetricCall("sprint", project, NoRange, "sprint-metrics-" \o project, FALSE,
                        Undefined)
          /\ UNCHANGED disk
     ELSE /\ MetricCall("sprint", project, NoRange, "sprint-metrics-" \o project, TRUE,
                        JArr(<<CalculateSingleSprintMetrics(iterations[1], workItems, now)>>))
          /\ StoreAnalysis("sprint-metrics-" \o project,
                           JArr(<<CalculateSingleSprintMetrics(iterations[1], workItems, now)>>),
                           << <<"project", JStr(project)>>,
                              <<"timestamp", JStr(ToISOString(now))>> >>)
  /\ UNCHANGED <<now, log, datasets, job, sessions, collect, puts>>

CalculateFlowMetrics(project, dateRange, workItems) ==
  /\ IF Len(workItems) = 0
     THEN /\ MetricCall("flow", project, dateRange, "flow-metrics-" \o project, FALSE,
                        GetEmptyFlowMetrics)
          /\ UNCHANGED disk
     ELSE /\ MetricCall("flow", project, dateRange, "flow-metrics-" \o project, TRUE,
                        FlowMetrics(workItems, dateRange))
          /\ StoreAnalysis("flow-metrics-" \o project, FlowMetrics(workItems, dateRange),
                           << <<"project", JStr(project)>>,
                              <<"dateRange", RangeObject(dateRange)>>,
                              <<"teamName", Undefined>> >>)
  /\ UNCHANGED <<now, log, datasets, job, sessions, collect, puts>>

CalculateDoraMetrics(project, dateRange) ==
  /\ MetricCall("dora", project, dateRange, "dora-metrics-" \o project, TRUE, DoraMetrics)
  /\ StoreAnalysis("dora-metrics-" \o project, DoraMetrics,
                   << <<"project", JStr(project)>>, <<"dateRange", RangeObject(dateRange)>> >>)
  /\ UNCHANGED <<now, log, datasets, job, sessions, collect, puts>>

\* an hour goes by
HourPasses ==
  /\ now < HourMs
  /\ now' = now + HourMs
  /\ UNCHANGED <<disk, log, datasets, job, others>>

MetricCalls ==
  \/ \E project \in Projects, iterations \in Iterations, workItems \in WorkItems :
       CalculateSprintMetrics(project, iterations, workItems)
  \/ \E project \in Projects, dateRange \in DateRanges, workItems \in WorkItems :
       CalculateFlowMetrics(project, dateRange, workItems)
  \/ \E project \in Projects, dateRange \in DateRanges : CalculateDoraMetrics(project, dateRange)

NextMetrics == Tick \/ HourPasses \/ MetricCalls

SpecMetrics == InitMetrics /\ [][NextMetrics]_vars

(***************************************************************************)
(* arrayToCsv, the rendering storeReport applies to an array when the      *)
(* format is 'csv'.  The text of a line break is "\n".                     *)
(***************************************************************************)
MaxRows == 2
\* flat records: the two of the repository's test, and ones that hold 0,
\* false and the empty string, or list their keys in another order
Person(name, age, active) ==
  JObj(<< <<"name", JStr(name)>>, <<"age", JNum(age)>>, <<"active", JBool(active)>> >>)
CsvRecords ==
  {Person(name, age, active) : name \in {"Alice", "Bob", ""}, age \in {30, 25, 0},
                               active \in BOOLEAN}
  \cup {JObj(<< <<"active", JBool(TRUE)>>, <<"age", JNum(25)>>, <<"name", JStr("Bob")>> >>)}
CsvContents == UNION {[1..n -> CsvRecords] : n \in 0..MaxRows}

RECURSIVE TextOf(_)
\* the compact text of a token sequence: JSON.stringify(value)
TextOf(toks) ==
  IF toks = <<>> THEN ""
  ELSE (IF toks[1][1] = "s" THEN "\"" \o toks[1][2] \o "\"" ELSE toks[1][2])
       \o TextOf(Tail(toks))

RECURSIVE Join(_, _)
\* texts.join(separator)
Join(texts, separator) ==
  IF texts = <<>> THEN ""
  ELSE IF Len(texts) = 1 THEN texts[1]
  ELSE texts[1] \o separator \o Join(Tail(texts), separator)

\* Object.keys(obj)
ObjectKeys(obj) == [i \in 1..Len(obj.v) |-> obj.v[i][1]]

\* x || ''
OrEmptyText(x) == IF Truthy(x) THEN x ELSE JStr("")

\* a cell: JSON.stringify(row[header] || '')
CsvCell(row, header) == TextOf(Stringify(OrEmptyText(Prop(row, header))))

CsvRow(row, headers) == Join([i \in 1..Len(headers) |-> CsvCell(row, headers[i])], ",")

ArrayToCsv(data) ==
  IF Len(data) = 0 THEN ""
  ELSE Join(<<Join(ObjectKeys(data[1]), ",")>>
            \o [i \in 1..Len(data) |-> CsvRow(data[i], ObjectKeys(data[1]))], "\n")

InitCsv ==
  /\ InitStore
  /\ \E content \in CsvContents :
       calc = [f |-> "csv", content |-> content, pc |-> "call", formattedContent |-> ""]

\* storeReport(reportType, content, 'csv'): the content is rendered
StoreReportCsv ==
  /\ calc.f = "csv" /\ calc.pc = "call"
  /\ calc' = [calc EXCEPT !.pc = "returned", !.formattedContent = ArrayToCsv(calc.content)]
  /\ UNCHANGED <<now, disk, log, datasets, job, sessions, collect, puts>>

NextCsv == StoreReportCsv

SpecCsv == InitCsv /\ [][NextCsv]_vars

(***************************************************************************)
(* generateAggregations over date ranges that begin and end at any time of *)
(* day, for results that hold no period.  Saturday 3 January 1970 is day   *)
(* 2 of the epoch; Monday 5 January begins the second ISO week.            *)
(***************************************************************************)
MaxSpan == 2
FirstDays == 2..3
\* midnight, six in the morning, six in the evening
TimesOfDay == {0, 6 * HourMs, 18 * HourMs}
RollupRanges ==
  {r \in [start : {d * DayMs + t : d \in FirstDays, t \in TimesOfDay},
          end : {d * DayMs + t : d \in 2..(3 + MaxSpan), t \in TimesOfDay}] :
     /\ r.start <= r.end
     /\ r.end \div DayMs - r.start \div DayMs <= MaxSpan}

RECURSIVE StoreAll(_, _, _, _)
\* the calls of store('cache', ...) one after the other: the directory left
StoreAll(dir, stores, project, ms) ==
  IF stores = <<>> THEN dir
  ELSE StoreAll(StoreDir(dir, "cache", stores[1].key, stores[1].data,
                         << <<"project", JStr(project)>> >>, JNum(stores[1].ttl), ms),
                Tail(stores), project, ms)

InitRollups ==
  /\ InitStore
  /\ \E project \in Projects, dateRange \in RollupRanges :
       calc = [f |-> "rollups", project |-> project, range |-> dateRange, pc |-> "call",
               at |-> 0, stores |-> <<>>]

\* generateAggregations(project, dateRange, results) runs to its end
GenerateAggregationsCall ==
  /\ calc.f = "rollups" /\ calc.pc = "call"
  /\ disk' = [disk EXCEPT !["cache"] =
                StoreAll(@, GenerateAggregations(calc.project, calc.range), calc.project, now)]
  /\ calc' = [calc EXCEPT !.pc = "returned", !.at = now,
                          !.stores = GenerateAggregations(calc.project, calc.range)]
  /\ UNCHANGED <<now, log, datasets, job, sessions, collect, puts>>

NextRollups == Tick \/ GenerateAggregationsCall

SpecRollups == InitRollups /\ [][NextRollups]_vars

(***************************************************************************)
(* The medians: the one the flow metrics bundle reports, the 50th          *)
(* percentile of MetricsAggregator, and calculateMedian of                 *)
(* AdvancedAnalytics.  A median is kept as the quotient n / d.             *)
(***************************************************************************)
\* AdvancedAnalytics.calculateMedian: mid = Math.floor(sorted.length / 2)
CalculateMedian(values) ==
  IF Len(values) = 0 THEN [n |-> 0, d |-> 1]
  ELSE IF Len(values) % 2 = 0
       THEN [n |-> SortAscending(values)[Len(values) \div 2]
                   + SortAscending(values)[Len(values) \div 2 + 1], d |-> 2]
       ELSE [n |-> SortAscending(values)[Len(values) \div 2 + 1], d |-> 1]

InitMedian ==
  /\ InitStore
  /\ \E values \in ValueSeqs :
       calc = [f |-> "median", values |-> values, pc |-> "call", by |-> "none",
               median |-> [n |-> 0, d |-> 1]]

\* calculateFlowMetrics: median: this.calculatePercentile(cycleTimes, 50)
FlowMetricsMedian ==
  /\ calc.f = "median" /\ calc.pc = "call"
  /\ calc' = [calc EXCEPT !.pc = "returned", !.by = "MetricsAggregator",
                          !.median = [n |-> CalculatePercentile(calc.values, 50).v, d |-> 1]]
  /\ UNCHANGED <<now, disk, log, datasets, job, sessions, collect, puts>>

AdvancedAnalyticsMedian ==
  /\ calc.f = "median" /\ calc.pc = "call"
  /\ calc' = [calc EXCEPT !.pc = "returned", !.by = "AdvancedAnalytics",
                          !.median = CalculateMedian(calc.values)]
  /\ UNCHANGED <<now, disk, log, datasets, job, sessions, collect, puts>>

NextMedian == FlowMetricsMedian \/ AdvancedAnalyticsMedian

SpecMedian == InitMedian /\ [][NextMedian]_vars

(***************************************************************************)
(* What the calls return in the current state.                             *)
(***************************************************************************)
Get(type, keyOrId) == RetrieveIn(disk[type], keyOrId, now).val

\* the elements of a sequence
RangeOf(seq) == {seq[i] : i \in 1..Len(seq)}

\* the record a logged call of store() wrote, and when it expires
RecordOf(e) == StoredData(e.type, e.key, e.data, e.metadata, e.ttl, e.at)
ExpiryOf(e) == DateOf(Prop(RecordOf(e), "expiresAt"))

\* no later call of store() in the same namespace used the same key
NoLaterSameKey(i) ==
  \A j \in (i + 1)..Len(log) : ~(log[j].type = log[i].type /\ log[j].key = log[i].key)

\* the last call of store() under a key of a namespace, 0 when there is none
LastStore(type, key) ==
  LET hits == {i \in 1..Len(log) : log[i].type = type /\ log[i].key = key}
  IN IF hits = {} THEN 0 ELSE CHOOSE i \in hits : \A j \in hits : j <= i

\* the time to live a call of store() asked for, the default when it gave none
GivenTtl(e) == IF e.ttl = Undefined THEN MaxCacheAge ELSE e.ttl.v

\* the files of a directory that hold a record, and whether one is expired at ms
RecordFiles(dir) == {f \in DOMAIN dir \ {IndexFile} : Parse(dir[f]).ok}
ExpiredFile(dir, f, ms) == DateBefore(Prop(Parse(dir[f]).v, "expiresAt"), ms)

\* the calls of store() whose record is still the one under its id, unexpired
Live(type) ==
  {i \in 1..Len(log) :
     /\ log[i].type = type /\ now <= ExpiryOf(log[i])
     /\ \A j \in (i + 1)..Len(log) : ~(log[j].type = type /\ log[j].id = log[i].id)}

\* metadata[key] === value for every entry of the filter
MetaStrictEquals(rec, filter) ==
  \A n \in 1..Len(filter) : StrictEq(Prop(Prop(rec, "metadata"), filter[n][1]), filter[n][2])

\* the place of a listed record among the calls of store(), and its timestamp
LogPos(type, item) == CHOOSE i \in Live(type) : RecordOf(log[i]) = item
Stamp(item) == DateOf(Prop(item, "timestamp"))

\* the place of a listed record's file in what readdir returned
FilePos(files, item) == CHOOSE n \in 1..Len(files) : files[n] = Prop(item, "id").v

\* the record's expiresAt is not earlier than the clock
Unexpired(rec) ==
  LET expiresAt == DateOf(Prop(rec, "expiresAt")) IN expiresAt = NaN \/ expiresAt >= now

\* the last call of storeDataset under a key, 0 when there is none
LastDataset(key) ==
  LET hits == {i \in 1..Len(datasets) : datasets[i].key = key}
  IN IF hits = {} THEN 0 ELSE CHOOSE i \in hits : \A j \in hits : j <= i

\* name is neither a key stored under in the namespace nor an id store() returned
NeverStored(type, name) ==
  \A i \in 1..Len(log) : log[i].type = type => (log[i].key # name /\ log[i].id # name)

(***************************************************************************)
(* C1: a payload stored is read back unchanged by the id store() returned, *)
(* at any time before the record expires, whatever calls of store() under  *)
(* other keys came in between.                                             *)
(***************************************************************************)
C1_RoundTrip ==
  \A i \in 1..Len(log) :
    (NoLaterSameKey(i) /\ now < ExpiryOf(log[i]))
      => Prop(Get(log[i].type, log[i].id), "data") = log[i].data

C1_Witness ==
  \E i, j \in 1..Len(log) :
    /\ i < j /\ log[i].type = log[j].type /\ log[i].key # log[j].key
    /\ log[i].data # log[j].data
    /\ now < ExpiryOf(log[i])
    /\ Prop(Get(log[i].type, log[i].id), "data") = log[i].data

(***************************************************************************)
(* C2: with ttl T >= 0 given (the default when none is given), the record  *)
(* is returned at every time before T has elapsed since the write and      *)
(* not-found is returned at every time after.                              *)
(***************************************************************************)
C2_TtlAsGiven ==
  \A i \in 1..Len(log) :
    NoLaterSameKey(i) =>
      /\ now < log[i].at + GivenTtl(log[i]) => Get(log[i].type, log[i].id) # Null
      /\ now > log[i].at + GivenTtl(log[i]) => Get(log[i].type, log[i].id) = Null

(***************************************************************************)
(* C3: no read, by id, by key, by list or by retrieveDataset, returns a    *)
(* record whose expiresAt is earlier than the time of the read.            *)
(***************************************************************************)
C3_NoExpiredRead ==
  /\ \A type \in InputTypes, name \in Names :
       LET rec == Get(type, name) IN rec # Null => Unexpired(rec)
  /\ \A type \in InputTypes, filter \in Filters :
       \A item \in RangeOf(ListIn(disk[type], SomeOrder(DOMAIN disk[type]), filter, now).items) :
         Unexpired(item)
  /\ \A key \in DatasetKeys :
       \A rec \in RangeOf(RetrieveDatasetIn(disk["cache"], key, now).read) : Unexpired(rec)

C3_Witness ==
  /\ job = Idle
  /\ \E f \in RecordFiles(disk["cache"]) :
       ExpiredFile(disk["cache"], f, now) /\ Get("cache", f) = Null
  /\ \E key \in DatasetKeys : Len(RetrieveDatasetIn(disk["cache"], key, now).read) >= 2
  /\ ListIn(disk["cache"], SomeOrder(DOMAIN disk["cache"]), <<>>, now).items # <<>>

(***************************************************************************)
(* C4: retrieve by key returns the record of the last store() under that   *)
(* key of the namespace while that record has not expired, and never an    *)
(* earlier record.                                                         *)
(***************************************************************************)
C4_LastWriteWins ==
  \A type \in InputTypes, key \in Keys :
    LET i == LastStore(type, key) IN
    i # 0 =>
      /\ now <= ExpiryOf(log[i]) => Get(type, key) = RecordOf(log[i])
      /\ Get(type, key) \in {Null, RecordOf(log[i])}

(***************************************************************************)
(* C5: any two calls of store() in a namespace return two distinct ids,    *)
(* and each record is read back by its own id until it expires.            *)
(***************************************************************************)
C5_DistinctIds ==
  \A i, j \in 1..Len(log) :
    (i < j /\ log[i].type = log[j].type) =>
      /\ log[i].id # log[j].id
      /\ now <= ExpiryOf(log[i]) => Get(log[i].type, log[i].id) = RecordOf(log[i])
      /\ now <= ExpiryOf(log[j]) => Get(log[j].type, log[j].id) = RecordOf(log[j])

(***************************************************************************)
(* C6: after storeDataset(key, items, chunkSize) has completed, and before *)
(* any record expires, retrieveDataset(key) returns items, the same        *)
(* elements in the same order, for every chunkSize >= 1 and every length.  *)
(***************************************************************************)
C6_DatasetRoundTrip ==
  \A key \in DatasetKeys :
    LET i == LastDataset(key) IN
    (job = Idle /\ i # 0 /\ now <= datasets[i].at + MaxCacheAge)
      => RetrieveDatasetIn(disk["cache"], key, now).val = JArr(datasets[i].data)

C6_Witness ==
  \E key \in DatasetKeys :
    LET i == LastDataset(key) IN
    /\ job = Idle /\ i = 2
    /\ Len(datasets[i].data) = 3 /\ datasets[i].chunkSize = 2
    /\ datasets[i].at < now /\ now <= datasets[i].at + MaxCacheAge
    /\ RetrieveDatasetIn(disk["cache"], key, now).val = JArr(datasets[i].data)

(***************************************************************************)
(* C7: whenever retrieveDataset returns a sequence, it has exactly the     *)
(* manifest's totalItems elements and equals one stored item sequence:     *)
(* never a partial or mixed one, also after chunks have expired or been    *)
(* swept.                                                                  *)
(***************************************************************************)
C7_WholeDataset ==
  \A key \in DatasetKeys :
    LET r == RetrieveDatasetIn(disk["cache"], key, now) IN
    (job = Idle /\ r.val.t = "arr") =>
      /\ Len(r.val.v) = Prop(Prop(r.read[1], "data"), "totalItems").v
      /\ \E i \in 1..Len(datasets) : datasets[i].key = key /\ r.val = JArr(datasets[i].data)

(***************************************************************************)
(* C8: cleanupExpired removes every expired record of every namespace,     *)
(* leaves every unexpired record, and returns the number of records it     *)
(* removed.                                                                *)
(***************************************************************************)
C8_CleanupCount ==
  \A swept \in {now, now + 1} :
    LET r == CleanupIn(disk, now, swept)
        removed == UNION {{<<t, f>> : f \in DOMAIN disk[t] \ DOMAIN r.fs[t]} : t \in TypeSet}
    IN /\ \A t \in TypeSet : \A f \in RecordFiles(disk[t]) :
            /\ ExpiredFile(disk[t], f, now) => f \notin DOMAIN r.fs[t]
            /\ ~ExpiredFile(disk[t], f, swept) => f \in DOMAIN r.fs[t]
       /\ r.count = Cardinality(removed)

(***************************************************************************)
(* C9: reads never fail.  retrieve returns not-found for an id or key that *)
(* was never stored, for an expired record and for a file that cannot be   *)
(* parsed; list skips the files that cannot be parsed and returns every    *)
(* other unexpired record.                                                 *)
(***************************************************************************)
C9_ReadsNeverFail ==
  /\ \A type \in InputTypes, name \in Names :
       (NeverStored(type, name) \/ <<type, name>> \in Unparseable) => Get(type, name) = Null
  /\ \A i \in 1..Len(log) :
       (NoLaterSameKey(i) /\ now > ExpiryOf(log[i])) => Get(log[i].type, log[i].id) = Null
  /\ \A type \in InputTypes :
       RangeOf(ListIn(disk[type], SomeOrder(DOMAIN disk[type]), <<>>, now).items)
         = {Parse(disk[type][f]).v :
              f \in {x \in RecordFiles(disk[type]) : ~ExpiredFile(disk[type], x, now)}}

CreatedAt(sessionId) ==
  {sessions[i].at : i \in {k \in 1..Len(sessions) :
                             sessions[k].op = "create" /\ sessions[k].id = sessionId}}
NeverCreated(sessionId) == CreatedAt(sessionId) = {}
\* every record stored for sessionId is past its expiry
SessionExpired(sessionId) ==
  /\ ~NeverCreated(sessionId)
  /\ \A c \in CreatedAt(sessionId) : c + MaxCacheAge < now
\* the files of the session sessionId: its record files and the file of its name
OwnFiles(sessionId) ==
  {sessionId} \cup {GenerateId(sessionId, c) : c \in CreatedAt(sessionId)}
\* from before to after no file appeared and none but the session's own changed
Untouched(before, after, sessionId) ==
  /\ DOMAIN after \subseteq DOMAIN before
  /\ \A f \in DOMAIN before \ OwnFiles(sessionId) :
       f \in DOMAIN after /\ after[f] = before[f]

(***************************************************************************)
(* C11.  updateSession on a session id that was never created, or whose    *)
(* record has expired, throws "Session not found", creates no record and   *)
(* changes no other file.                                                  *)
(***************************************************************************)
C11_UpdateUnknownFails ==
  \A sessionId \in SessionNames, updates \in Updates :
    NeverCreated(sessionId) \/ SessionExpired(sessionId) =>
      LET r == UpdateSessionIn(disk["session"], sessionId, updates, now) IN
        r.threw /\ Untouched(disk["session"], r.dir, sessionId)

RECURSIVE BagAfter(_, _, _)
\* the members the data bag of session sessionId is to hold after the calls
\* sessions[i..]: the initial data, then each update that went through merged in
BagAfter(sessionId, i, bag) ==
  IF i > Len(sessions) THEN bag
  ELSE BagAfter(sessionId, i + 1,
         IF sessions[i].id # sessionId \/ sessions[i].threw THEN bag
         ELSE IF sessions[i].op = "create" THEN sessions[i].data.v
         ELSE Spread(bag, sessions[i].data.v))
\* an update of sessionId went through since it was last created
Updated(sessionId) ==
  \E i \in 1..Len(sessions) :
    /\ sessions[i].op = "update" /\ sessions[i].id = sessionId /\ ~sessions[i].threw
    /\ \A k \in i..Len(sessions) : ~(sessions[k].op = "create" /\ sessions[k].id = sessionId)
\* the bag that holds initialData in the record read back
BagOf(rec) == Prop(Prop(rec, "data"), "data")

(***************************************************************************)
(* C12.  After createSession(type, initialData) and any updateSession      *)
(* calls, the data bag of the session read back by its id holds every      *)
(* initialData field not overwritten and every field of every update with  *)
(* the value written last, and carries a last-updated stamp once updated.  *)
(***************************************************************************)
C12_UpdatesMergeIntoData ==
  \A sessionId \in {id \in SessionNames : ~NeverCreated(id)} :
    LET rec == Get("session", sessionId)
        expected == BagAfter(sessionId, 1, <<>>)
    IN rec # Null =>
         /\ \A i \in 1..Len(expected) : Prop(BagOf(rec), expected[i][1]) = expected[i][2]
         /\ Updated(sessionId) => Truthy(Prop(BagOf(rec), "lastUpdated"))

\* the lifecycle state the session read back shows: the status an update
\* recorded, else the state it was created with; "none" when it reads as null
Lifecycle(rec) ==
  IF rec = Null THEN "none"
  ELSE IF Prop(Prop(rec, "data"), "status").t = "str" THEN Prop(Prop(rec, "data"), "status").v
  ELSE IF Prop(Prop(rec, "data"), "state").t = "str" THEN Prop(Prop(rec, "data"), "state").v
  ELSE "none"
\* the states a session may be in next
Forward(state) == IF state = "active" THEN {"active", "completed", "failed"} ELSE {state}

(***************************************************************************)
(* C13.  The lifecycle state of a session only moves forward: from active  *)
(* to completed or to failed, and a completed or failed session never      *)
(* changes again; a run of collectHistoricalData never records failed      *)
(* after completed.                                                        *)
(***************************************************************************)
C13_LifecycleForward ==
  [][\A sessionId \in {id \in SessionNames : ~NeverCreated(id)} :
       LET before == Lifecycle(RetrieveIn(disk["session"], sessionId, now).val)
           after == Lifecycle(RetrieveIn(disk'["session"], sessionId, now').val)
       IN before # "none" /\ after # "none" => after \in Forward(before)]_vars

\* the calls i and k of store() ran concurrently, k called before i had
\* finished, and both have finished now
Concurrent(i, k) ==
  /\ i \in 1..Len(puts) /\ k \in 1..Len(puts) /\ i < k
  /\ puts[k].overlaps
  /\ puts[i].pc = "done" /\ puts[k].pc = "done"
  /\ puts[i].type = puts[k].type
\* the record of put i can still be read
PutLive(i) == now <= puts[i].at + MaxCacheAge

(***************************************************************************)
(* C14.  After two concurrent puts to the same namespace and key have both *)
(* completed, each record is retrievable by its own id and the index entry *)
(* of the key is the id of one of the two.                                 *)
(***************************************************************************)
C14_ConcurrentSameKey ==
  \A i, k \in 1..Len(puts) :
    Concurrent(i, k) /\ puts[i].key = puts[k].key /\ PutLive(i) /\ PutLive(k) =>
      /\ \A p \in {i, k} : Get(puts[p].type, puts[p].id) = puts[p].record
      /\ FindIdByKey(disk[puts[i].type], puts[i].key) \in {JStr(puts[i].id), JStr(puts[k].id)}

(***************************************************************************)
(* C15.  For every remaining work, velocity mean, velocity standard        *)
(* deviation and confidence level, the predicted sprint counts satisfy     *)
(* optimistic <= likely <= pessimistic.                                    *)
(***************************************************************************)
C15_ForecastOrdering ==
  calc.f = "predictDelivery" /\ calc.pc = "returned" /\ calc.avgVelocity > 0 =>
    LessEq(calc.optimistic, calc.likely) /\ LessEq(calc.likely, calc.pessimistic)

(***************************************************************************)
(* C16.  Every trial of the Monte Carlo simulation ends after at most      *)
(* SprintCap + 1 velocity draws, whatever the remaining work, mean and     *)
(* deviation, and the simulation returns as many sprint counts as trials   *)
(* were asked for.                                                         *)
(***************************************************************************)
C16_SimulationReturns ==
  <>(/\ calc.pc = "returned"
     /\ Len(calc.results) = calc.iterations
     /\ \A i \in 1..Len(calc.results) : calc.results[i] <= SprintCap + 1)

C16_Witness ==
  /\ calc.f = "predictDelivery" /\ calc.pc = "returned"
  /\ calc.avgVelocity <= 0 /\ calc.remainingWork > 0
  /\ calc.iterations = MaxTrials
  /\ \E i \in 1..Len(calc.results) : calc.results[i] = SprintCap + 1

\* the element at index ceil(p / 100 * n) - 1, clamped to 0..n-1, of the
\* values in ascending order; 0 when there are no values
NearestRank(values, p) ==
  IF values = <<>> THEN JNum(0)
  ELSE JNum(SortAscending(values)[
         Min(Max(CeilDiv(p * Len(values), 100) - 1, 0), Len(values) - 1) + 1])

(***************************************************************************)
(* C17.  percentile(values, p) is 0 for no values and otherwise the        *)
(* element at index ceil(p/100 * n) - 1, clamped to 0..n-1, of the values  *)
(* sorted ascending, for every p, in each of the three implementations.    *)
(***************************************************************************)
C17_NearestRank ==
  calc.f = "percentile" /\ calc.pc = "returned" =>
    calc.atP = NearestRank(calc.values, calc.p)

(***************************************************************************)
(* C18.  For non-empty values and p < q, the percentile at p is at most    *)
(* the percentile at q (MetricsAggregator and AdvancedAnalytics).          *)
(***************************************************************************)
C18_PercentileMonotone ==
  /\ calc.f = "percentile" /\ calc.pc = "returned"
  /\ calc.by \in {"MetricsAggregator", "AdvancedAnalytics"}
  /\ calc.values # <<>> /\ calc.p < calc.q
  => LessEq(calc.atP, calc.atQ)

StrictlyIncreasing(values) == \A i \in 1..(Len(values) - 1) : values[i] < values[i + 1]
StrictlyDecreasing(values) == \A i \in 1..(Len(values) - 1) : values[i] > values[i + 1]
Flat(values) == \A i \in 1..(Len(values) - 1) : values[i] = values[i + 1]

(***************************************************************************)
(* C19.  Every trend classifier labels a strictly increasing 6-point       *)
(* sequence increasing, a strictly decreasing one decreasing, and a flat   *)
(* sequence stable.                                                        *)
(***************************************************************************)
C19_TrendLabels ==
  calc.f = "trend" /\ calc.pc = "returned" =>
    /\ Len(calc.values) = TrendPoints /\ StrictlyIncreasing(calc.values)
         => calc.trend = "increasing"
    /\ Len(calc.values) = TrendPoints /\ StrictlyDecreasing(calc.values)
         => calc.trend = "decreasing"
    /\ Flat(calc.values) => calc.trend = "stable"

\* the tiers from best to worst, and the place of a tier among them
TierOrder == <<"elite", "high", "medium", "low">>
Place(tier) == CHOOSE i \in 1..4 : TierOrder[i] = tier
\* the tier of the first of the four thresholds that q meets; a threshold is
\* a quotient, met from above (atLeast), from below, or strictly from below
Meets(q, t, how) ==
  CASE how = "atLeast" -> q.n * t.d >= t.n * q.d
    [] how = "atMost" -> q.n * t.d <= t.n * q.d
    [] how = "below" -> q.n * t.d < t.n * q.d
TierBy(q, thresholds, how) ==
  IF Meets(q, thresholds[1], how) THEN "elite"
  ELSE IF Meets(q, thresholds[2], how) THEN "high"
  ELSE IF Meets(q, thresholds[3], how) THEN "medium" ELSE "low"
\* per day: one a day, one a week, one a month of 30 days; hours: an hour, a
\* week, a month; minutes: an hour, a day, a week; percent
TierOf(by, q) ==
  CASE by = "deploymentFrequency" ->
         TierBy(q, <<[n |-> 1, d |-> 1], [n |-> 1, d |-> 7], [n |-> 1, d |-> 30]>>, "atLeast")
    [] by = "leadTime" ->
         TierBy(q, <<[n |-> 1, d |-> 1], [n |-> 168, d |-> 1], [n |-> 720, d |-> 1]>>, "below")
    [] by = "mttr" ->
         TierBy(q, <<[n |-> 60, d |-> 1], [n |-> 1440, d |-> 1], [n |-> 10080, d |-> 1]>>, "below")
    [] by = "failureRate" ->
         TierBy(q, <<[n |-> 15, d |-> 1], [n |-> 30, d |-> 1], [n |-> 45, d |-> 1]>>, "atMost")
\* x is at least as good a value as y: more deployments, less of the others
AsGood(by, x, y) ==
  IF by = "deploymentFrequency" THEN x.n * y.d >= y.n * x.d ELSE x.n * y.d <= y.n * x.d

RECURSIVE AboveTwice(_, _, _)
AboveTwice(counts, baseline, i) ==
  IF i > Len(counts) THEN <<>>
  ELSE (IF baseline.d * counts[i] > 2 * baseline.n THEN <<i>> ELSE <<>>)
       \o AboveTwice(counts, baseline, i + 1)
\* the one severity of a flagged count
SeverityTier(count, baseline) ==
  CASE baseline.d * count > 4 * baseline.n -> "high"
    [] baseline.d * count > 3 * baseline.n /\ baseline.d * count <= 4 * baseline.n -> "medium"
    [] OTHER -> "low"

(***************************************************************************)
(* C21.  detectSpikes(series, baseline) flags exactly the points whose     *)
(* value is above 2 x baseline, in series order, each with the severity    *)
(* high above 4 x baseline, medium above 3 x up to 4 x, low otherwise.     *)
(***************************************************************************)
C21_SpikeSeverity ==
  calc.f = "spikes" /\ calc.pc = "returned" /\ calc.by = "detectSpikes" =>
    LET flagged == AboveTwice(calc.counts, calc.baseline, 1)
    IN /\ Len(calc.spikes) = Len(flagged)
       /\ \A k \in 1..Len(flagged) :
            /\ calc.spikes[k].value = calc.counts[flagged[k]]
            /\ calc.spikes[k].date = FormatDate(20241200 + flagged[k])
            /\ calc.spikes[k].severity = SeverityTier(calc.counts[flagged[k]], calc.baseline)

\* a series with a point that is passed over and one of each severity
C21_Witness ==
  /\ calc.f = "spikes" /\ calc.pc = "returned" /\ calc.by = "detectSpikes"
  /\ calc.baseline = [n |-> 5, d |-> 1] /\ calc.counts = <<16, 10, 21>>
  /\ Len(calc.spikes) = 2
  /\ calc.spikes[1].severity = "medium" /\ calc.spikes[2].severity = "high"

\* the average of the counts as a quotient, 0 for no counts
AverageOf(counts) ==
  IF counts = <<>> THEN [n |-> 0, d |-> 1] ELSE [n |-> Sum(counts), d |-> Len(counts)]
\* the spike reported at place k is the day at place i of the series, with
\* the deviation count - baseline
SpikeOfDay(spikes, k, counts, i, baseline) ==
  /\ spikes[k].count = counts[i]
  /\ spikes[k].deviationFromBaseline.n * baseline.d
       = (counts[i] * baseline.d - baseline.n) * spikes[k].deviationFromBaseline.d

(***************************************************************************)
(* C30.  getThroughputWithSpikes reports as spikes exactly the days whose  *)
(* count is above 2 x the baseline (the daily average), each with          *)
(* deviationFromBaseline = count - baseline; of the daily counts 5, 5, 20, *)
(* 6, 5 the day with count 20 is reported.                                 *)
(***************************************************************************)
C30_ThroughputSpikes ==
  calc.f = "spikes" /\ calc.pc = "returned" /\ calc.by = "getThroughputWithSpikes" =>
    LET flagged == AboveTwice(calc.counts, AverageOf(calc.counts), 1)
    IN /\ Len(calc.spikes) = Len(flagged)
       /\ \A k \in 1..Len(flagged) :
            SpikeOfDay(calc.spikes, k, calc.counts, flagged[k], AverageOf(calc.counts))
       /\ calc.counts = TestCounts =>
            \E k \in 1..Len(calc.spikes) : calc.spikes[k].count = 20

\* the call at place i returned a bundle, and no later call computed the same
\* metric for the same project
LastBundle(i) ==
  /\ calc.calls[i].returned # Undefined
  /\ \A j \in (i + 1)..Len(calc.calls) :
       ~(calc.calls[j].metric = calc.calls[i].metric
         /\ calc.calls[j].project = calc.calls[i].project)
\* get('analysis', '<metric>-metrics-<project>') gives the bundle: the same JSON text
GivesBundle(metric, project, bundle) ==
  /\ Get("analysis", metric \o "-metrics-" \o project) # Null
  /\ Stringify(Prop(Get("analysis", metric \o "-metrics-" \o project), "data"))
       = Stringify(bundle)

(***************************************************************************)
(* C22.  After calculateSprintMetrics, calculateFlowMetrics or             *)
(* calculateDoraMetrics returned a bundle M for project P, also when there *)
(* were no work items, get('analysis', '<metric>-metrics-P') returns M at  *)
(* every time within one hour of the call, and not-found after one hour.   *)
(***************************************************************************)
C22_BundleCachedOneHour ==
  calc.f = "metrics" =>
    \A i \in 1..Len(calc.calls) :
      LastBundle(i) =>
        /\ now <= calc.calls[i].at + HourMs
             => GivesBundle(calc.calls[i].metric, calc.calls[i].project, calc.calls[i].returned)
        /\ now > calc.calls[i].at + HourMs
             => Get("analysis", calc.calls[i].metric \o "-metrics-" \o calc.calls[i].project) = Null

(***************************************************************************)
(* C27.  The key a metric bundle is persisted under tells project, metric  *)
(* type and date range apart: two computations that differ in project or   *)
(* in date range never write under the same key.                           *)
(***************************************************************************)
C27_KeysTellApart ==
  calc.f = "metrics" =>
    \A i, j \in 1..Len(calc.calls) :
      /\ calc.calls[i].stored /\ calc.calls[j].stored
      /\ \/ calc.calls[i].project # calc.calls[j].project
         \/ calc.calls[i].range # calc.calls[j].range
      => calc.calls[i].key # calc.calls[j].key

\* a value as a cell shows it: text quoted, anything else bare
OwnText(value) ==
  CASE value.t = "str" -> "\"" \o value.v \o "\""
    [] value.t = "num" -> ToString(value.v)
    [] value.t = "bool" -> IF value.v = 1 THEN "true" ELSE "false"
\* the header row, then one row per record, each cell the record's own value
RowsAsGiven(content) ==
  <<Join(ObjectKeys(content[1]), ",")>>
  \o [i \in 1..Len(content) |->
        Join([k \in 1..Len(content[1].v) |-> OwnText(Prop(content[i], content[1].v[k][1]))],
             ",")]

(***************************************************************************)
(* C23.  Rendering flat records as CSV gives a header row of the keys of   *)
(* the first record, in order, then one row per record in input order,     *)
(* each cell that record's own value for the header (text quoted, numbers  *)
(* bare), for every value including 0, false and the empty string.         *)
(***************************************************************************)
C23_CsvRows ==
  calc.f = "csv" /\ calc.pc = "returned" /\ calc.content # <<>> =>
    calc.formattedContent = Join(RowsAsGiven(calc.content), "\n")

(***************************************************************************)
(* C24.  After two concurrent puts under two distinct keys of the same     *)
(* namespace have both completed, get by each of the two keys returns the  *)
(* record written under that key: neither index entry is lost.             *)
(***************************************************************************)
C24_ConcurrentDistinctKeys ==
  \A i, k \in 1..Len(puts) :
    Concurrent(i, k) /\ puts[i].key # puts[k].key /\ PutLive(i) /\ PutLive(k) =>
      \A p \in {i, k} : Get(puts[p].type, puts[p].key) = puts[p].record

\* the sessions created and not yet expired
LiveSessions ==
  {id \in SessionNames : \E c \in CreatedAt(id) : now <= c + MaxCacheAge}
\* what list('session') returns
SessionList == ListIn(disk["session"], SomeOrder(DOMAIN disk["session"]), <<>>, now).items

(***************************************************************************)
(* C25.  After any createSession and updateSession calls the session       *)
(* namespace holds exactly one record per created unexpired session, the   *)
(* one get('session', sessionId) returns: updateSession never leaves a     *)
(* second or stale copy that list('session') would return.                 *)
(***************************************************************************)
C25_OneRecordPerSession ==
  /\ Len(SessionList) = Cardinality(LiveSessions)
  /\ \A sessionId \in LiveSessions :
       \E k \in 1..Len(SessionList) : SessionList[k] = Get("session", sessionId)

\* the session of the run that ended last, as get('session', sessionId) gives it
EndedSession == RetrieveIn(disk["session"], collect.id, now).val

(***************************************************************************)
(* C26.  Every run of collectHistoricalData ends with its session out of   *)
(* the active state: completed and holding the results when the call       *)
(* returns, failed and holding the error detail when the call throws.      *)
(***************************************************************************)
C26_RunEndsSession ==
  /\ collect.op = "returned" /\ collect.at = now =>
       /\ Lifecycle(EndedSession) = "completed"
       /\ Prop(Prop(EndedSession, "data"), "results") # Undefined
  /\ collect.op = "threw" /\ collect.at = now =>
       /\ Lifecycle(EndedSession) = "failed"
       /\ Prop(Prop(EndedSession, "data"), "error") # Undefined

\* the calendar days of a range, counted from the epoch
CalendarDays(range) == (range.start \div DayMs)..(range.end \div DayMs)
\* the ISO week of a day of January 1970: the year begins on a Thursday
IsoWeekOf(day) == IF day <= 3 THEN "1970-W01" ELSE "1970-W" \o Pad2((day - 4) \div 7 + 2)
\* the calls of store() made with the key
StoresUnder(key) == {i \in 1..Len(calc.stores) : calc.stores[i].key = key}
\* one call under the key, with the time to live, and the record is there
PersistedOnce(key, ttl) ==
  /\ Cardinality(StoresUnder(key)) = 1
  /\ \A i \in StoresUnder(key) : calc.stores[i].ttl = ttl
  /\ DateOf(Prop(RetrieveIn(disk["cache"], key, calc.at).val, "expiresAt")) = calc.at + ttl

(***************************************************************************)
(* C28.  For every date range with start <= end, whatever the times of     *)
(* day, generateAggregations persists exactly one daily bucket, with a     *)
(* 1-day time to live, for each calendar day from the start day to the end *)
(* day, and exactly one weekly rollup, with a 1-week time to live, per ISO *)
(* week that holds one of those days.                                      *)
(***************************************************************************)
C28_DailyAndWeeklyRollups ==
  calc.f = "rollups" /\ calc.pc = "returned" =>
    /\ \A day \in CalendarDays(calc.range) :
         /\ PersistedOnce("metrics/daily/" \o "1970-01-" \o Pad2(day + 1), DayMs)
         /\ PersistedOnce("metrics/weekly/" \o IsoWeekOf(day), WeekMs)
    /\ Len(calc.stores)
         = Cardinality(CalendarDays(calc.range))
           + Cardinality({IsoWeekOf(day) : day \in CalendarDays(calc.range)})

\* the values in ascending order
Ranked(values) == SortAscending(values)
\* median(values): the middle element of the sorted values for odd length,
\* the mean of the two middle elements for even length, as a quotient
MedianOf(values) ==
  IF Len(values) % 2 = 1 THEN [n |-> Ranked(values)[(Len(values) + 1) \div 2], d |-> 1]
  ELSE [n |-> Ranked(values)[Len(values) \div 2] + Ranked(values)[Len(values) \div 2 + 1],
        d |-> 2]
SameQuotient(x, y) == x.n * y.d = y.n * x.d

(***************************************************************************)
(* C29.  For every non-empty sequence of cycle or lead times the median    *)
(* of the flow metrics bundle is median(values): the middle element of the *)
(* sorted values for odd length, the mean of the two middle elements for   *)
(* even length, as AdvancedAnalytics.calculateMedian gives it.             *)
(***************************************************************************)
C29_FlowMedian ==
  calc.f = "median" /\ calc.pc = "returned" /\ calc.by = "MetricsAggregator"
  /\ calc.values # <<>>
  => /\ SameQuotient(calc.median, MedianOf(calc.values))
     /\ SameQuotient(calc.median, CalculateMedian(calc.values))

====
